---- MODULE Spec2Model ----
(***************************************************************************)
(* Verification model of bangumi-sync: the bounded-concurrency Scheduler   *)
(* (src/utils/scheduler.ts), the entity matcher and relation cache         *)
(* (src/utils/data_util.ts) and the collection fillers                     *)
(* (src/utils/sync_util.ts).                                               *)
(***************************************************************************)
EXTENDS Integers, Sequences, FiniteSets, TLC

(***************************************************************************)
(* Bounds of the model.                                                    *)
(***************************************************************************)
MaxJobs == 3
MaxLimit == 2
MaxCalls == 2
MaxRel == 2
MaxEntries == 2

Jobs == 1..MaxJobs

VARIABLES
    limit,      \* Scheduler.limit
    queue,      \* Scheduler.queue: the tasks pushed and not yet started
    running,    \* Scheduler.running
    jobState,   \* per task: "new", "queued", "running", "resolved", "rejected", "done"
    pushed,     \* number of push() calls made by the caller so far
    callerPc,   \* the caller of the scheduler: "pushing", "waiting", "returned"
    china_anime_data,   \* data_util.ts: the China catalog snapshot
    global_anime_data,  \* data_util.ts: the global catalog snapshot
    score,              \* string-similarity rating of a China title against a global item's titles
    known_relations,    \* data_util.ts: the in-memory relation cache
    relFile,            \* the content of cache/known_relations.json
    frame,              \* per invocation of a matcher: its locals and what it did
    calls,              \* number of matcher invocations made by the sequential caller
    fillDir,            \* which filler runs: "cg" fillBangumiCollection, "gc" fillAnilistCollection
    collection,         \* sync_util.ts: the collection given to the filler
    result,             \* sync_util.ts: the pre-sized result array of the filler
    job,                \* per job of the filler: its captured variables and its locals
    writes,             \* the assignments to result made so far: which job wrote which slot
    loaded,             \* the relation list as buildDatabase loaded it
    returned,           \* the array the filler returned, Null before it returns
    compare,            \* one invocation of compareChinaWithGlobal: its arguments, position and result
    backwardMode,       \* main.ts: whether generateChangelog is called with the collections swapped
    syncComment,        \* generateChangelog: its syncComment argument
    bangumiCollection,  \* generateChangelog: its first parameter, the source collection
    anilistCollection,  \* generateChangelog: its second parameter, the target collection
    given,              \* the two collections as they were passed to generateChangelog
    changelog,          \* generateChangelog: its result array, entries held by position
    genPc,              \* generateChangelog: "idle", "called", "loop" or "returned"
    genIdx,             \* generateChangelog: the position of its loop in bangumiCollection
    main,               \* main.ts singleMode from the changelog on: its locals, position and what it sent
    remote,             \* one call of AnilistClient.query, BangumiClient.getSubjectById or searchAnime
    database            \* autoUpdateDatabase for one catalog: the etags, the snapshot file and its position

schedVars == <<limit, queue, running, jobState, pushed, callerPc>>
catalogVars == <<china_anime_data, global_anime_data, score>>
matchVars == <<known_relations, relFile, frame, calls>>
fillVars == <<fillDir, collection, result, job, writes, loaded, returned>>
compareVars == <<compare>>
mainVars == <<main>>
ioVars == <<remote, database>>
changelogVars == <<backwardMode, syncComment, bangumiCollection, anilistCollection,
                   given, changelog, genPc, genIdx>>
vars == <<limit, queue, running, jobState, pushed, callerPc,
          china_anime_data, global_anime_data, score,
          known_relations, relFile, frame, calls,
          fillDir, collection, result, job, writes, loaded, returned,
          compare, backwardMode, syncComment, bangumiCollection, anilistCollection,
          given, changelog, genPc, genIdx, main, remote, database>>

(***************************************************************************)
(* Scheduler (src/utils/scheduler.ts)                                      *)
(***************************************************************************)

\* The tasks whose promise is pending: started by run() and not yet settled.
InFlight == {j \in Jobs : jobState[j] = "running"}

\* Scheduler.run as a state transformer on <<queue, running, jobState>>:
\* running++ and task() is invoked.
run(s, task) ==
    [s EXCEPT !.running = s.running + 1,
              !.jobState = [s.jobState EXCEPT ![task] = "running"]]

\* Scheduler.next: if (this.queue.length) this.run(this.queue.shift()).
next(s) ==
    IF Len(s.queue) > 0
    THEN run([s EXCEPT !.queue = Tail(s.queue)], Head(s.queue))
    ELSE s

SchedState == [queue |-> queue, running |-> running, jobState |-> jobState]

\* Mutant of pushGuard: an off-by-one comparison.
pushGuardOffByOne(s) == s.running <= limit

\* The guard of push: if (this.running < this.limit) this.next().
pushGuard(s) == s.running < limit

\* Scheduler.push(task).
push(s, task) ==
    LET q == [s EXCEPT !.queue = Append(s.queue, task),
                       !.jobState = [s.jobState EXCEPT ![task] = "queued"]]
    IN IF pushGuard(q) THEN next(q) ELSE q

\* Mutant of thenCallback: the slot is released but the queue is not served.
thenCallbackNoNext(s, task) ==
    [s EXCEPT !.running = s.running - 1,
              !.jobState = [s.jobState EXCEPT ![task] = "done"]]

\* The fulfilment callback of run: this.running--; this.next().
thenCallback(s, task) ==
    next([s EXCEPT !.running = s.running - 1,
                   !.jobState = [s.jobState EXCEPT ![task] = "done"]])

SetSched(s) ==
    /\ queue' = s.queue
    /\ running' = s.running
    /\ jobState' = s.jobState

\* The caller pushes its next task.
Push ==
    /\ callerPc = "pushing"
    /\ pushed < MaxJobs
    /\ pushed' = pushed + 1
    /\ SetSched(push(SchedState, pushed + 1))
    /\ UNCHANGED <<limit, callerPc>>
    /\ UNCHANGED <<compareVars, changelogVars, catalogVars, ioVars, mainVars, matchVars, fillVars>>

\* A running task's promise is fulfilled.
JobResolve(j) ==
    /\ jobState[j] = "running"
    /\ jobState' = [jobState EXCEPT ![j] = "resolved"]
    /\ UNCHANGED <<limit, queue, running, pushed, callerPc>>
    /\ UNCHANGED <<compareVars, changelogVars, catalogVars, ioVars, mainVars, matchVars, fillVars>>

\* A running task's promise is rejected: run() registers no rejection
\* handler, so nothing of the scheduler changes.
JobReject(j) ==
    /\ jobState[j] = "running"
    /\ jobState' = [jobState EXCEPT ![j] = "rejected"]
    /\ UNCHANGED <<limit, queue, running, pushed, callerPc>>
    /\ UNCHANGED <<compareVars, changelogVars, catalogVars, ioVars, mainVars, matchVars, fillVars>>

\* The microtask registered by run() with then() runs.
ThenCallback(j) ==
    /\ jobState[j] = "resolved"
    /\ SetSched(thenCallback(SchedState, j))
    /\ UNCHANGED <<limit, pushed, callerPc>>
    /\ UNCHANGED <<compareVars, changelogVars, catalogVars, ioVars, mainVars, matchVars, fillVars>>

\* The loop test of wait(): while (this.running) await <100 ms timer>.
waitTest == IF running = 0 THEN "returned" ELSE "waiting"

\* The caller calls wait(): the first loop test runs synchronously.
CallWait ==
    /\ callerPc = "pushing"
    /\ callerPc' = waitTest
    /\ UNCHANGED <<limit, queue, running, jobState, pushed>>
    /\ UNCHANGED <<compareVars, changelogVars, catalogVars, ioVars, mainVars, matchVars, fillVars>>

\* The 100 ms timer of wait() fires and the loop test runs again.
WaitPoll ==
    /\ callerPc = "waiting"
    /\ running = 0
    /\ callerPc' = waitTest
    /\ UNCHANGED <<limit, queue, running, jobState, pushed>>
    /\ UNCHANGED <<compareVars, changelogVars, catalogVars, ioVars, mainVars, matchVars, fillVars>>

(***************************************************************************)
(* Catalog data (src/types/china_anime_data.ts, global_anime_data.ts)      *)
(***************************************************************************)

\* JavaScript null / undefined.
Null == [null |-> TRUE]

\* An absent (falsy) id.
NoId == "none"

\* No invocation of compareChinaWithGlobal from the caller of the model.
IdleCompare == [pc |-> "idle"]

NoCompare == compare = IdleCompare

\* singleMode has not reached its changelog.
IdleMain == [pc |-> "idle"]

NoMain == main = IdleMain

\* No remote call and no run of autoUpdateDatabase.
IdleRemote == [pc |-> "idle"]

IdleDatabase == [pc |-> "idle"]

NoIo == remote = IdleRemote /\ database = IdleDatabase

\* No invocation of generateChangelog.
NoChangelog ==
    /\ backwardMode = FALSE
    /\ syncComment = FALSE
    /\ bangumiCollection = <<>>
    /\ anilistCollection = <<>>
    /\ given = Null
    /\ changelog = <<>>
    /\ genPc = "idle"
    /\ genIdx = 0

\* titleSimilarityThreshold of matchChinaToGlobal / matchGlobalToChina and
\* the 0.75 of the search fallback, as a percentage.
Threshold == 75

\* ChinaAnimeData.Item: titles is [title, ...titleTranslate names], begin is
\* kept as (year, month) = (getFullYear(), getMonth() + 1).
ChinaItem(titles, type, year, month, sites) ==
    [titles |-> titles, type |-> type, year |-> year, month |-> month, sites |-> sites]

\* GlobalAnimeData.Item: title stands for [title, ...synonyms]; mal and
\* anilist are sites["MyAnimeList"] and sites["AniList"].
GlobalItem(title, type, episodes, season, year, mal, anilist) ==
    [title |-> title, type |-> type, episodes |-> episodes, season |-> season,
     year |-> year, mal |-> mal, anilist |-> anilist]

\* Relation (src/types/cache.ts).
Relation(bgm_id, mal_id, title) == [bgm_id |-> bgm_id, mal_id |-> mal_id, title |-> title]

\* stringSimilarity.findBestMatch(title, [gl.title, ...gl.synonyms]).bestMatch.rating
Rating(title, gl) == score[title][gl.title]

\* The index of the first TRUE of a sequence of booleans, 0 when there is none.
FirstTrue(flags) ==
    IF \E i \in 1..Len(flags) : flags[i]
    THEN CHOOSE i \in 1..Len(flags) : flags[i] /\ \A k \in 1..(i - 1) : ~flags[k]
    ELSE 0

\* The index of the last TRUE of a sequence of booleans, 0 when there is none.
LastTrue(flags) ==
    IF \E i \in 1..Len(flags) : flags[i]
    THEN CHOOSE i \in 1..Len(flags) : flags[i] /\ \A k \in (i + 1)..Len(flags) : ~flags[k]
    ELSE 0

\* getBgmId: cn.sites.find(s => s.site === "bangumi")?.id || null
getBgmId(cn) ==
    LET i == FirstTrue([k \in 1..Len(cn.sites) |-> cn.sites[k].site = "bangumi"])
    IN IF i = 0 THEN NoId ELSE cn.sites[i].id

\* bgm_id_map.get(bgm_id): buildDatabase sets the map item by item, so a
\* later catalog item with the same id replaces an earlier one.
bgmIdMapGet(bgm_id) ==
    LET i == LastTrue([k \in 1..Len(china_anime_data) |->
                        /\ getBgmId(china_anime_data[k]) # NoId
                        /\ getBgmId(china_anime_data[k]) = bgm_id])
    IN IF i = 0 THEN Null ELSE china_anime_data[i]

\* getGlobalAnimeItemByMal: mal_id_map.get(mal_id)[0], the first catalog item
\* with that MyAnimeList id.
getGlobalAnimeItemByMal(mal_id) ==
    LET i == FirstTrue([k \in 1..Len(global_anime_data) |->
                        /\ global_anime_data[k].mal # NoId
                        /\ global_anime_data[k].mal = mal_id])
    IN IF i = 0 THEN Null ELSE global_anime_data[i]

\* getGlobalAnimeItemByAnilist: the first catalog item with that AniList id.
getGlobalAnimeItemByAnilist(anilist_id) ==
    LET i == FirstTrue([k \in 1..Len(global_anime_data) |->
                        /\ global_anime_data[k].anilist # NoId
                        /\ global_anime_data[k].anilist = anilist_id])
    IN IF i = 0 THEN Null ELSE global_anime_data[i]

\* getAnilistId: the AniList id of the first item of mal_id_map.get(malId) that has one.
getAnilistId(malId) ==
    LET i == FirstTrue([k \in 1..Len(global_anime_data) |->
                        /\ global_anime_data[k].mal # NoId
                        /\ global_anime_data[k].mal = malId
                        /\ global_anime_data[k].anilist # NoId])
    IN IF i = 0 THEN NoId ELSE global_anime_data[i].anilist

\* getChinaAnimeItem(bgm_id, check_fields); subject is what
\* bangumiClient.getSubjectById answers when the id is not in bgm_id_map
\* (Null after its retries are exhausted).
getChinaAnimeItem(bgm_id, check_fields, subject, now) ==
    IF bgmIdMapGet(bgm_id) # Null THEN bgmIdMapGet(bgm_id)
    ELSE IF subject = Null THEN Null
    ELSE IF check_fields /\ subject.date = Null THEN Null
    ELSE IF subject.platform \notin {"TV", "OVA", "WEB", "MOVIE"} THEN Null
    ELSE ChinaItem(
            IF subject.name_cn # NoId THEN <<subject.name, subject.name_cn>> ELSE <<subject.name>>,
            CASE subject.platform = "TV" -> "tv"
              [] subject.platform = "OVA" -> "ova"
              [] subject.platform = "WEB" -> "web"
              [] subject.platform = "MOVIE" -> "movie",
            IF subject.date # Null THEN subject.date.year ELSE now.year,
            IF subject.date # Null THEN subject.date.month ELSE now.month,
            <<[site |-> "bangumi", id |-> bgm_id]>>)

(***************************************************************************)
(* compareChinaWithGlobal (src/utils/data_util.ts)                         *)
(***************************************************************************)

\* The strict branch of the season check: four tests in sequence, each
\* returning false.
strictSeasonOk(season, month) ==
    ~ \/ (season # "WINTER" /\ month < 4)
      \/ (season # "SPRING" /\ month < 7)
      \/ (season # "SUMMER" /\ month < 10)
      \/ (season # "FALL" /\ month < 13)

\* The switch over the month with the cases of the boundary months merged
\* into their neighbours.
looseSeasonOkNoBoundary(season, month) ==
    CASE month \in {1, 2, 3} -> season = "WINTER"
      [] month \in {4, 5, 6} -> season = "SPRING"
      [] month \in {7, 8, 9} -> season = "SUMMER"
      [] month \in {10, 11, 12} -> season = "FALL"
      [] OTHER -> FALSE

\* The non-strict branch of the season check: the switch over the month.
looseSeasonOk(season, month) ==
    CASE month \in {1, 2} -> season = "WINTER"
      [] month = 3 -> season \in {"WINTER", "SPRING"}
      [] month \in {4, 5} -> season = "SPRING"
      [] month = 6 -> season \in {"SPRING", "SUMMER"}
      [] month \in {7, 8} -> season = "SUMMER"
      [] month = 9 -> season \in {"SUMMER", "FALL"}
      [] month \in {10, 11} -> season = "FALL"
      [] month = 12 -> season \in {"FALL", "WINTER"}
      [] OTHER -> FALSE

\* The format switch with the Ova case testing for Ova alone.
formatMismatchOvaOnly(chinaType, globalType) ==
    /\ globalType # "UNKNOWN"
    /\ CASE chinaType = "tv" -> globalType # "TV"
         [] chinaType = "web" -> globalType # "ONA"
         [] chinaType = "ova" -> globalType # "OVA"
         [] chinaType = "movie" -> globalType # "MOVIE"
         [] OTHER -> FALSE

\* The format switch: mismatch is set when the global type is not one the
\* China type pairs with.
formatMismatch(chinaType, globalType) ==
    /\ globalType # "UNKNOWN"
    /\ CASE chinaType = "tv" -> globalType # "TV"
         [] chinaType = "web" -> globalType # "ONA"
         [] chinaType = "ova" -> globalType \notin {"OVA", "SPECIAL"}
         [] chinaType = "movie" -> globalType # "MOVIE"
         [] OTHER -> FALSE

\* (await bangumiClient.getSubjectById(id))?.total_episodes !== global.episodes:
\* undefined (no subject) differs from every episode count.
episodesDiffer(subject, global) ==
    IF subject = Null THEN TRUE ELSE subject.total_episodes # global.episodes

\* compareChinaWithGlobal with the season check made for every season,
\* Undefined included.
compareSeasonAlways(china, global, strictMode, subject) ==
    IF china.year # global.year THEN FALSE
    ELSE IF ~ (IF strictMode THEN strictSeasonOk(global.season, china.month)
                             ELSE looseSeasonOk(global.season, china.month))
         THEN FALSE
    ELSE LET mismatch == formatMismatch(china.type, global.type)
         IN ~ (mismatch /\ (~strictMode /\ episodesDiffer(subject, global)))

\* compareChinaWithGlobal(china, global, strictMode) with matchMonth and
\* matchFormat at their defaults; subject is the answer of getSubjectById
\* for the episode-count backup.
compareChinaWithGlobal(china, global, strictMode, subject) ==
    IF china.year # global.year THEN FALSE
    ELSE IF /\ global.season # "UNDEFINED"
            /\ ~ (IF strictMode THEN strictSeasonOk(global.season, china.month)
                                ELSE looseSeasonOk(global.season, china.month))
         THEN FALSE
    ELSE LET mismatch == formatMismatch(china.type, global.type)
         IN ~ (mismatch /\ (~strictMode /\ episodesDiffer(subject, global)))

\* Whether compareChinaWithGlobal reaches the getSubjectById call.
compareFetchesSubject(china, global, strictMode) ==
    /\ china.year = global.year
    /\ \/ global.season = "UNDEFINED"
       \/ (IF strictMode THEN strictSeasonOk(global.season, china.month)
                         ELSE looseSeasonOk(global.season, china.month))
    /\ formatMismatch(china.type, global.type)
    /\ ~strictMode

(***************************************************************************)
(* matchChinaToGlobal / matchGlobalToChina (src/utils/data_util.ts)        *)
(***************************************************************************)

\* The forEach over the other catalog and the loop over the titles: pairs
\* holds, in loop order, each candidate with the rating of one title.
RECURSIVE scanPairs(_, _, _)
scanPairs(pairs, acc, threshold) ==
    IF pairs = <<>> THEN acc
    ELSE LET p == Head(pairs)
         IN scanPairs(Tail(pairs),
                [fuzzyMatch |-> IF p.score >= threshold
                                THEN Append(acc.fuzzyMatch, p) ELSE acc.fuzzyMatch,
                 bestMatch |-> IF p.score > acc.bestMatch.score THEN p ELSE acc.bestMatch],
                threshold)

\* matchChinaToGlobal: global_anime_data.forEach(gl => for (title of cnTitles) ...).
chinaToGlobalPairs(cn) ==
    LET nt == Len(cn.titles)
    IN [k \in 1..(Len(global_anime_data) * nt) |->
            LET gl == global_anime_data[((k - 1) \div nt) + 1]
            IN [anime |-> gl, score |-> Rating(cn.titles[((k - 1) % nt) + 1], gl)]]

\* matchGlobalToChina: china_anime_data.forEach(cn => for (title of cnTitles) ...).
RECURSIVE globalToChinaPairs(_, _)
globalToChinaPairs(i, gl) ==
    IF i > Len(china_anime_data) THEN <<>>
    ELSE LET cn == china_anime_data[i]
         IN [t \in 1..Len(cn.titles) |-> [anime |-> cn, score |-> Rating(cn.titles[t], gl)]]
            \o globalToChinaPairs(i + 1, gl)

\* Mutant of sortDesc: the candidates are left in catalog order.
sortDescOmitted(s) == s

\* fuzzyMatch.sort((a, b) => b.score - a.score): descending by score, stable.
RECURSIVE sortDesc(_)
sortDesc(s) ==
    IF s = <<>> THEN <<>>
    ELSE LET sorted == sortDesc(SubSeq(s, 1, Len(s) - 1))
             x == s[Len(s)]
             k == Cardinality({i \in 1..Len(sorted) : sorted[i].score >= x.score})
         IN SubSeq(sorted, 1, k) \o <<x>> \o SubSeq(sorted, k + 1, Len(sorted))

\* Mutant of useStrictMode: strict mode is never enabled for the fallback candidate.
useStrictModeNever(fuzzyMatch, bestMatch) == FALSE

\* if (fuzzyMatch.length == 0 && bestMatch.anime): fall back to the best
\* match and enable strict mode.
useStrictMode(fuzzyMatch, bestMatch) == Len(fuzzyMatch) = 0 /\ bestMatch.anime # Null

\* The locals of one invocation of a matcher, and a record of what it did:
\* hit (the relation cache answered), fuzzyCalls (findBestMatch calls made),
\* checks (the compareChinaWithGlobal calls made, in order), appendedAt (the
\* position at which it pushed to known_relations, 0 when it did not) and
\* relLen (the length of known_relations when it was invoked).
Frame(pc, dir, arg, fuzzyMatch, strictMode, ret, hit, fuzzyCalls) ==
    [pc |-> pc, dir |-> dir, arg |-> arg, fuzzyMatch |-> fuzzyMatch,
     strictMode |-> strictMode, idx |-> 1, ret |-> ret, hit |-> hit,
     fuzzyCalls |-> fuzzyCalls, checks |-> <<>>, appendedAt |-> 0,
     relLen |-> Len(known_relations)]

IdleFrame == Frame("idle", "none", Null, <<>>, FALSE, Null, FALSE, 0)

\* The fuzzy match of either matcher over the pairs of its loops, up to the
\* loop over the candidates.
fuzzyFrame(dir, arg, pairs, threshold) ==
    LET scan == scanPairs(pairs, [fuzzyMatch |-> <<>>,
                                  bestMatch |-> [anime |-> Null, score |-> 0]], threshold)
        sorted == sortDesc(scan.fuzzyMatch)
        strictMode == useStrictMode(sorted, scan.bestMatch)
        fuzzyMatch == IF strictMode THEN <<scan.bestMatch>> ELSE sorted
    IN Frame(IF fuzzyMatch = <<>> THEN "ret" ELSE "cmp", dir, arg, fuzzyMatch,
             strictMode, Null, FALSE, Len(pairs))

\* Mutant of knownRelationOf: the lookup finds nothing.
knownRelationOfNone(relations, key, id) == Null

\* Mutant of knownRelationOf: the newest relation entry wins.
knownRelationOfNewest(relations, key, id) ==
    LET i == LastTrue([k \in 1..Len(relations) |-> relations[k][key] = id])
    IN IF i = 0 THEN Null ELSE relations[i]

\* known_relations.find(r => r[key] === id): the first (oldest) entry of that id.
knownRelationOf(relations, key, id) ==
    LET i == FirstTrue([k \in 1..Len(relations) |-> relations[k][key] = id])
    IN IF i = 0 THEN Null ELSE relations[i]

\* matchChinaToGlobal up to its first await: the known-relation lookup and,
\* on a miss, the fuzzy match.
matchChinaToGlobalEnter(cn, threshold) ==
    LET bgm_id == getBgmId(cn)
        known == knownRelationOf(known_relations, "bgm_id", bgm_id)
    IN IF bgm_id = NoId
       THEN Frame("ret", "cg", cn, <<>>, FALSE, Null, FALSE, 0)
       ELSE IF known # Null /\ known.mal_id # NoId
       THEN Frame("ret", "cg", cn, <<>>, FALSE, getGlobalAnimeItemByMal(known.mal_id), TRUE, 0)
       ELSE fuzzyFrame("cg", cn, chinaToGlobalPairs(cn), threshold)

\* matchGlobalToChina up to its first await; on a hit the await is
\* getChinaAnimeItem(bgm_id), which may ask bgm.tv (subject).
matchGlobalToChinaEnter(gl, threshold, subject, now) ==
    LET mal_id == gl.mal
        known == knownRelationOf(known_relations, "mal_id", mal_id)
    IN IF mal_id = NoId
       THEN Frame("ret", "gc", gl, <<>>, FALSE, Null, FALSE, 0)
       ELSE IF known # Null /\ known.bgm_id # NoId
       THEN Frame("ret", "gc", gl, <<>>, FALSE,
                  getChinaAnimeItem(known.bgm_id, TRUE, subject, now), TRUE, 0)
       ELSE fuzzyFrame("gc", gl, globalToChinaPairs(1, gl), threshold)

\* Mutant of candidateId: a candidate without an id of its own is not skipped.
candidateIdUnchecked(dir, anime) == "m0"

\* The id under which a passing candidate is stored: anime.sites["MyAnimeList"]
\* in matchChinaToGlobal, getBgmId(cn_anime) in matchGlobalToChina.
candidateId(dir, anime) == IF dir = "cg" THEN anime.mal ELSE getBgmId(anime)

\* One iteration of the loop over fuzzyMatch: the compatibility check of the
\* candidate, then either continue or push the relation and return.
\* appended is the relation pushed (a sequence of length 0 or 1).
matchStep(f, subject) ==
    LET cand == f.fuzzyMatch[f.idx]
        cn == IF f.dir = "cg" THEN f.arg ELSE cand.anime
        gl == IF f.dir = "cg" THEN cand.anime ELSE f.arg
        ok == compareChinaWithGlobal(cn, gl, f.strictMode, subject)
        id == candidateId(f.dir, cand.anime)
        checks == Append(f.checks, [anime |-> cand.anime, score |-> cand.score,
                                    strict |-> f.strictMode, ok |-> ok])
    IN IF ok /\ id # NoId
       THEN [frame |-> [f EXCEPT !.pc = "ret", !.ret = cand.anime, !.checks = checks,
                                 !.appendedAt = Len(known_relations) + 1],
             appended |-> <<Relation(getBgmId(cn), gl.mal,
                                    IF f.dir = "cg" THEN cn.titles[1] ELSE gl.title)>>]
       ELSE [frame |-> [f EXCEPT !.pc = IF f.idx = Len(f.fuzzyMatch) THEN "ret" ELSE "cmp",
                                 !.idx = f.idx + 1, !.checks = checks],
             appended |-> <<>>]

\* Mutant of savedRelations: the file is written before the push takes effect.
savedRelationsStale(relations, appended) == relations

\* fs.writeFileSync(known_relations.json, JSON.stringify(known_relations))
\* after known_relations.push(...): the whole list is written.
savedRelations(relations, appended) == relations \o appended

(***************************************************************************)
(* The matchers called one after the other (SpecMatch)                     *)
(***************************************************************************)

\* A Subject of the bgm.tv API, as far as getChinaAnimeItem and
\* compareChinaWithGlobal read it.
Subject(name, name_cn, date, platform, total_episodes) ==
    [name |-> name, name_cn |-> name_cn, date |-> date, platform |-> platform,
     total_episodes |-> total_episodes]

\* The name bgm.tv records for a subject id.
RemoteName(bgm_id) == IF bgm_id = "b1" THEN "t1" ELSE "t2"

\* What bangumiClient.getSubjectById may answer: null once its retries are
\* exhausted, or the subject (with or without a date, of a platform
\* getChinaAnimeItem knows or not, with one or another episode total).
SubjectAnswers(bgm_id) ==
    {Null,
     Subject(RemoteName(bgm_id), NoId, [year |-> 2021, month |-> 12], "TV", 12),
     Subject(RemoteName(bgm_id), NoId, [year |-> 2021, month |-> 12], "TV", 24),
     Subject(RemoteName(bgm_id), NoId, Null, "TV", 12),
     Subject(RemoteName(bgm_id), NoId, [year |-> 2021, month |-> 12], "MUSIC", 12)}

\* new Date() where getChinaAnimeItem substitutes it for a missing date.
Now == [year |-> 2022, month |-> 1, day |-> 15]

\* The answers compareChinaWithGlobal can receive: those of getSubjectById
\* when it makes the call, none otherwise.
compareAnswers(f) ==
    LET cand == f.fuzzyMatch[f.idx]
        cn == IF f.dir = "cg" THEN f.arg ELSE cand.anime
        gl == IF f.dir = "cg" THEN cand.anime ELSE f.arg
    IN IF compareFetchesSubject(cn, gl, f.strictMode)
       THEN SubjectAnswers(getBgmId(cn)) ELSE {Null}

\* The caller invokes matchChinaToGlobal(cn) once the previous invocation
\* has returned.
CallMatchChinaToGlobal ==
    /\ calls < MaxCalls
    /\ calls > 0 => frame[calls].pc = "ret"
    /\ calls' = calls + 1
    /\ frame' = [frame EXCEPT ![calls + 1] =
                    matchChinaToGlobalEnter(china_anime_data[1], Threshold)]
    /\ UNCHANGED <<schedVars, compareVars, changelogVars, catalogVars, ioVars, mainVars, fillVars, known_relations, relFile>>

\* The caller invokes matchGlobalToChina(gl) once the previous invocation
\* has returned.
CallMatchGlobalToChina ==
    /\ calls < MaxCalls
    /\ calls > 0 => frame[calls].pc = "ret"
    /\ calls' = calls + 1
    /\ \E subject \in SubjectAnswers("b2") :
            frame' = [frame EXCEPT ![calls + 1] =
                        matchGlobalToChinaEnter(global_anime_data[1], Threshold, subject, Now)]
    /\ UNCHANGED <<schedVars, compareVars, changelogVars, catalogVars, ioVars, mainVars, fillVars, known_relations, relFile>>

\* The effect of one loop iteration of a matcher on the shared state.
MatchLoop(c, dir) ==
    /\ frame[c].pc = "cmp"
    /\ frame[c].dir = dir
    /\ \E subject \in compareAnswers(frame[c]) :
        LET r == matchStep(frame[c], subject)
        IN /\ frame' = [frame EXCEPT ![c] = r.frame]
           /\ known_relations' = known_relations \o r.appended
           /\ relFile' = IF r.appended = <<>> THEN relFile
                         ELSE savedRelations(known_relations, r.appended)

\* One iteration of the loop "for (const {anime, score} of fuzzyMatch)" of
\* matchChinaToGlobal.
StepMatchChinaToGlobal(c) ==
    /\ MatchLoop(c, "cg")
    /\ UNCHANGED <<schedVars, compareVars, changelogVars, catalogVars, ioVars, mainVars, fillVars, calls>>

\* One iteration of the loop "for (const {cn_anime, score} of fuzzyMatch)" of
\* matchGlobalToChina.
StepMatchGlobalToChina(c) ==
    /\ MatchLoop(c, "gc")
    /\ UNCHANGED <<schedVars, compareVars, changelogVars, catalogVars, ioVars, mainVars, fillVars, calls>>

\* The inputs of the model: catalog items, ratings and relation caches.
ScoreValues == {0, 40, 60, 80, 90}
CnTitles == {"t1", "t2", "t3"}
GlTitles == {"g1", "g2"}

\* A global item of the model: of its attributes the MyAnimeList id, the
\* season and the type vary.
GlobalProfiles ==
    {<<TRUE, "FALL", "TV">>, <<TRUE, "WINTER", "TV">>, <<TRUE, "SPRING", "TV">>,
     <<FALSE, "FALL", "TV">>, <<TRUE, "FALL", "MOVIE">>}

GlobalOf(k, profile) ==
    GlobalItem(<<"g1", "g2">>[k], profile[3], 12, profile[2], 2021,
               IF profile[1] THEN <<"m1", "m2">>[k] ELSE NoId, <<"a1", "a2">>[k])

BangumiSite(id) == <<[site |-> "bangumi", id |-> id]>>

\* The relation entries a cache of the model may hold.
RelDomain ==
    {Relation("b1", "m1", "t1"), Relation("b1", "m2", "t1"), Relation("b2", "m1", "t2")}

InitialCaches == UNION {[1..n -> RelDomain] : n \in 0..MaxRel}

\* Ratings: row by China title, column by global item.
ScoreTable(t1g1, t1g2, t2g1, t3g1) ==
    [t \in CnTitles |-> [g \in GlTitles |->
        CASE t = "t1" /\ g = "g1" -> t1g1
          [] t = "t1" /\ g = "g2" -> t1g2
          [] t = "t2" /\ g = "g1" -> t2g1
          [] t = "t3" /\ g = "g1" -> t3g1
          [] OTHER -> 0]]

\* Catalogs that vary the candidates of matchChinaToGlobal.
InitCatalogsForChinaToGlobal ==
    /\ china_anime_data = <<ChinaItem(<<"t1">>, "tv", 2021, 12, BangumiSite("b1"))>>
    /\ \E p1 \in GlobalProfiles, p2 \in GlobalProfiles :
            global_anime_data = <<GlobalOf(1, p1), GlobalOf(2, p2)>>
    /\ \E a \in ScoreValues, b \in ScoreValues : score = ScoreTable(a, b, 0, 0)

\* Catalogs that vary the candidates of matchGlobalToChina.
InitCatalogsForGlobalToChina ==
    /\ \E month \in {5, 12}, sites \in {<<>>, BangumiSite("b2")} :
            china_anime_data = <<ChinaItem(<<"t2", "t3">>, "tv", 2021, 12, sites),
                                 ChinaItem(<<"t1">>, "tv", 2021, month, BangumiSite("b1"))>>
    /\ \E p1 \in GlobalProfiles : global_anime_data = <<GlobalOf(1, p1)>>
    /\ \E a \in ScoreValues, b \in {0, 40, 80}, c \in {0, 90} : score = ScoreTable(a, 0, b, c)

InitMatch ==
    /\ limit = 1
    /\ queue = <<>>
    /\ running = 0
    /\ jobState = [j \in Jobs |-> "new"]
    /\ pushed = 0
    /\ callerPc = "pushing"
    /\ InitCatalogsForChinaToGlobal \/ InitCatalogsForGlobalToChina
    /\ known_relations \in InitialCaches
    /\ relFile = known_relations
    /\ frame = [c \in 1..MaxCalls |-> IdleFrame]
    /\ calls = 0
    /\ fillDir = "none"
    /\ collection = <<>>
    /\ result = <<>>
    /\ job = <<>>
    /\ writes = <<>>
    /\ loaded = known_relations
    /\ returned = Null
    /\ NoIo
    /\ NoCompare
    /\ NoChangelog
    /\ NoMain

NextMatch ==
    \/ CallMatchChinaToGlobal
    \/ CallMatchGlobalToChina
    \/ \E c \in 1..MaxCalls : StepMatchChinaToGlobal(c)
    \/ \E c \in 1..MaxCalls : StepMatchGlobalToChina(c)

SpecMatch == InitMatch /\ [][NextMatch]_vars

\* The loop iteration that stores a relation, with fs.writeFileSync throwing:
\* the push has been made, the file is as it was or cut short, and the
\* exception leaves the matcher, for nothing around the write catches it.
StepMatchWriteFails(c) ==
    /\ frame[c].pc = "cmp"
    /\ \E subject \in compareAnswers(frame[c]) :
        LET r == matchStep(frame[c], subject)
        IN /\ r.appended # <<>>
           /\ frame' = [frame EXCEPT ![c] = [r.frame EXCEPT !.pc = "threw", !.ret = Null]]
           /\ known_relations' = known_relations \o r.appended
           /\ relFile' \in {relFile, <<>>}
    /\ UNCHANGED <<schedVars, compareVars, changelogVars, catalogVars, ioVars, mainVars, fillVars, calls>>

NextPersist ==
    \/ NextMatch
    \/ \E c \in 1..MaxCalls : StepMatchWriteFails(c)

\* The matchers start on a cache miss, the case in which they save.
InitPersist == InitMatch /\ known_relations = <<>>

SpecPersist == InitPersist /\ [][NextPersist]_vars

Init ==
    /\ limit \in 1..MaxLimit
    /\ queue = <<>>
    /\ running = 0
    /\ jobState = [j \in Jobs |-> "new"]
    /\ pushed = 0
    /\ callerPc = "pushing"
    /\ china_anime_data = <<>>
    /\ global_anime_data = <<>>
    /\ score = <<>>
    /\ known_relations = <<>>
    /\ relFile = <<>>
    /\ frame = <<>>
    /\ calls = 0
    /\ fillDir = "none"
    /\ collection = <<>>
    /\ result = <<>>
    /\ job = <<>>
    /\ writes = <<>>
    /\ loaded = known_relations
    /\ returned = Null
    /\ NoIo
    /\ NoCompare
    /\ NoChangelog
    /\ NoMain

Next ==
    \/ Push
    \/ \E j \in Jobs : JobResolve(j)
    \/ \E j \in Jobs : JobReject(j)
    \/ \E j \in Jobs : ThenCallback(j)
    \/ CallWait
    \/ WaitPoll

Spec == Init /\ [][Next]_vars

\* The scheduling the runtime gives the Scheduler: the microtask registered
\* by then() runs once the promise is fulfilled and the 100 ms timer of
\* wait() fires; and every started job settles, its promise fulfilled or
\* rejected.
SchedulerFairness ==
    /\ \A j \in Jobs : WF_vars(JobResolve(j) \/ JobReject(j))
    /\ \A j \in Jobs : WF_vars(ThenCallback(j))
    /\ WF_vars(WaitPoll)

SpecLive == Spec /\ SchedulerFairness

(***************************************************************************)
(* fillBangumiCollection / fillAnilistCollection (src/utils/sync_util.ts)  *)
(***************************************************************************)

\* new Scheduler(15)
FillLimit == 15

\* The 0.75 of the search fallback, as a percentage.
FallbackThreshold == 75

\* AnimeCollection (src/types/anime_collection.ts), as far as the fillers
\* read and write it; update_time tells the entries of a collection apart.
AnimeCollection(bgm_id, mal_id, anilist_id, title, update_time) ==
    [bgm_id |-> bgm_id, mal_id |-> mal_id, anilist_id |-> anilist_id,
     title |-> title, update_time |-> update_time]

\* config/manual_relations.json: pairs [bgm.tv id, AniList id].
manual_relations == <<[bgm_id |-> "b9", anilist_id |-> "a2"]>>

\* config/ignore_entries.json
ignore_entries == [bangumi |-> {"b8"}, anilist |-> {"a8"}, mal |-> {"m7"}]

\* ignore_entries.bangumi.find(r => String(r) === bangumiItem.bgm_id), resp.
\* ignore_entries.anilist.find(r => String(r) === anilistItem.anilist_id).
isIgnored(dir, entry) ==
    IF dir = "cg" THEN entry.bgm_id \in ignore_entries.bangumi
    ELSE entry.anilist_id \in ignore_entries.anilist

\* manual_relations.find(r => String(r[0]) === bgm_id), resp. r[1] === anilist_id.
manualOf(key, id) ==
    LET i == FirstTrue([k \in 1..Len(manual_relations) |-> manual_relations[k][key] = id])
    IN IF i = 0 THEN Null ELSE manual_relations[i]

\* Media of the AniList API (src/types/anilist_api.ts), as far as the job
\* reads it; an absent part of startDate is 0.
Media(id, idMal, format, startDate, native) ==
    [id |-> id, idMal |-> idMal, format |-> format, startDate |-> startDate, native |-> native]

\* String(idMal): the string "null" for an absent id.
StringOf(id) == IF id = NoId THEN "null" ELSE id

\* What anilistClient.searchAnime may do: return null (query gave nothing
\* after its retries), return the media of the page, or throw at
\* data.Page.media when the answer carries no Page.
AnilistSearchAnswers ==
    {[kind |-> "null", items |-> <<>>],
     [kind |-> "throws", items |-> <<>>],
     [kind |-> "list", items |-> <<>>],
     [kind |-> "list", items |-> <<Media("a1", "m1", "TV", [year |-> 2021, month |-> 10, day |-> 1], "g1"),
                                  Media("a2", "m2", "TV", [year |-> 2021, month |-> 10, day |-> 1], "g2")>>],
     [kind |-> "list", items |-> <<Media("a4", NoId, "MUSIC", [year |-> 2022, month |-> 0, day |-> 0], "g4"),
                                  Media("a3", NoId, "TV", [year |-> 2022, month |-> 4, day |-> 0], "g3")>>]}

\* What bangumiClient.searchAnime may return: the list of the answer, or []
\* once its retries are exhausted.
BangumiSearchAnswers ==
    {<<>>, <<[id |-> "b1"]>>, <<[id |-> NoId], [id |-> "b2"], [id |-> "b1"]>>}

\* The format switch and the type switch of the search for an anime that
\* has not aired: the catalog type of a media format, "none" when the
\* candidate is skipped.
unairedType(format, chinaType) ==
    LET type == CASE format \in {"TV", "TV_SHORT"} -> "TV"
                  [] format = "OVA" -> "OVA"
                  [] format = "MOVIE" -> "MOVIE"
                  [] format = "SPECIAL" -> "SPECIAL"
                  [] format = "ONA" -> "ONA"
                  [] OTHER -> "none"
        fits == CASE chinaType = "tv" -> type = "TV"
                  [] chinaType = "ova" -> type \in {"OVA", "SPECIAL"}
                  [] chinaType = "movie" -> type = "MOVIE"
                  [] chinaType = "web" -> type = "ONA"
                  [] OTHER -> FALSE
    IN IF type # "none" /\ fits THEN type ELSE "none"

\* (!startDate.year || year >= now year) && (likewise month) && (likewise day)
hasNotAired(startDate, now) ==
    /\ (startDate.year = 0 \/ startDate.year >= now.year)
    /\ (startDate.month = 0 \/ startDate.month >= now.month)
    /\ (startDate.day = 0 \/ startDate.day >= now.day)

\* The loop over the search results for an anime that has not aired: the
\* global item built from the first media of a fitting format that has not
\* aired, Null when there is none.
unairedMatch(chinaItem, globalItems, now) ==
    LET i == FirstTrue([k \in 1..Len(globalItems) |->
                    /\ unairedType(globalItems[k].format, chinaItem.type) # "none"
                    /\ hasNotAired(globalItems[k].startDate, now)])
    IN IF i = 0 THEN Null
       ELSE GlobalItem(globalItems[i].native, unairedType(globalItems[i].format, chinaItem.type),
                       0, "UNDEFINED", 0, StringOf(globalItems[i].idMal), StringOf(globalItems[i].id))

\* maxSimilarity of the search fallback: the best rating of a title of the
\* China item against the titles of the global item.
RECURSIVE maxSimilarity(_, _, _)
maxSimilarity(titles, gl, acc) ==
    IF titles = <<>> THEN acc
    ELSE maxSimilarity(Tail(titles), gl,
                       IF Rating(Head(titles), gl) > acc THEN Rating(Head(titles), gl) ELSE acc)

\* The variables a job captures (i, the entry) and its locals: item is the
\* job's own catalog item (chinaItem, resp. globalItem), subject the answer
\* getSubjectById gave it, items the search results, k the position in
\* them; fchecks records the compatibility checks of the search fallback.
JobRec(i, entry) ==
    [pc |-> "idle", i |-> i, entry |-> entry, item |-> Null, subject |-> Null,
     items |-> <<>>, k |-> 1, fchecks |-> <<>>]

\* What a step of a job does besides changing its locals: end tells whether
\* the job goes on ("running"), returned ("resolved") or threw ("rejected");
\* write holds the match it assigned to its result slot (Null for an
\* unmatched result) and call the matcher invocation it made, each a
\* sequence of length 0 or 1.
Effect(j, end, write, call) == [job |-> j, end |-> end, write |-> write, call |-> call]

\* result[i] = {bgm: bangumiItem}; return
unmatched(j) == Effect([j EXCEPT !.pc = "end"], "resolved", <<Null>>, <<>>)

\* result[i] = {bgm: bangumiItem, global: m}; return
matched(j, m) == Effect([j EXCEPT !.pc = "end"], "resolved", <<m>>, <<>>)

\* The job goes on to its next await.
goesOn(j, pc) == Effect([j EXCEPT !.pc = pc], "running", <<>>, <<>>)

\* An exception leaves the job: nothing of it catches one.
throws(j) == Effect([j EXCEPT !.pc = "end"], "rejected", <<>>, <<>>)

\* What getSubjectById answers inside getChinaAnimeItem: nothing is asked
\* when the id is in bgm_id_map.
chinaAnswers(bgm_id) ==
    IF bgmIdMapGet(bgm_id) # Null THEN {Null} ELSE SubjectAnswers(bgm_id)

\* BangumiClient.subjectCache: a subject that was fetched is answered from
\* the cache; a failed fetch is made again.
cachedAnswers(subject, bgm_id) ==
    IF subject # Null THEN {subject} ELSE SubjectAnswers(bgm_id)

\* The job of fillBangumiCollection up to its first await.
fillBangumiEnter(j) ==
    LET manual_id == manualOf("bgm_id", j.entry.bgm_id)
    IN IF j.entry.bgm_id = NoId THEN unmatched(j)
       ELSE IF isIgnored("cg", j.entry) THEN unmatched(j)
       ELSE IF manual_id # Null /\ manual_id.anilist_id # NoId THEN goesOn(j, "manual")
       ELSE goesOn(j, "china")

\* The job of fillBangumiCollection after getGlobalAnimeItemByAnilist(manual_id[1]).
fillBangumiManual(j) ==
    LET gl == getGlobalAnimeItemByAnilist(manualOf("bgm_id", j.entry.bgm_id).anilist_id)
    IN IF gl # Null THEN matched(j, gl) ELSE goesOn(j, "china")

\* The job after getChinaAnimeItem(bgm_id): on null the relaxed lookup is
\* made, otherwise matchChinaToGlobal(chinaItem) is called.
fillBangumiChina(j, subject) ==
    LET chinaItem == getChinaAnimeItem(j.entry.bgm_id, TRUE, subject, Now)
    IN IF chinaItem = Null THEN goesOn([j EXCEPT !.subject = subject], "relaxed")
       ELSE Effect([j EXCEPT !.pc = "match", !.item = chinaItem, !.subject = subject],
                   "running", <<>>, <<matchChinaToGlobalEnter(chinaItem, Threshold)>>)

\* The job after getChinaAnimeItem(bgm_id, false).
fillBangumiRelaxed(j, subject) ==
    LET chinaItem == getChinaAnimeItem(j.entry.bgm_id, FALSE, subject, Now)
    IN IF chinaItem = Null THEN unmatched(j)
       ELSE goesOn([j EXCEPT !.item = chinaItem, !.subject = subject], "unaired")

\* The job after the searchAnime of the relaxed lookup.
fillBangumiUnaired(j, answer) ==
    IF answer.kind = "throws" THEN throws(j)
    ELSE IF answer.kind = "null" THEN unmatched(j)
    ELSE LET gl == unairedMatch(j.item, answer.items, Now)
         IN IF gl # Null THEN matched(j, gl) ELSE unmatched(j)

\* The job after its matcher returned: a match is written, otherwise the
\* title search is made (fillAnilistCollection: if the entry has a title).
afterMatch(dir, j, ret) ==
    IF ret # Null THEN matched(j, ret)
    ELSE IF dir = "cg" \/ j.entry.title # NoId THEN goesOn(j, "search")
    ELSE unmatched(j)

\* The job of fillBangumiCollection after anilistClient.searchAnime(chinaItem.title).
fillBangumiSearch(j, answer) ==
    IF answer.kind = "throws" THEN throws(j)
    ELSE IF answer.items = <<>> THEN unmatched(j)
    ELSE goesOn([j EXCEPT !.items = answer.items, !.k = 1], "fallback")

\* The answers the compatibility check of the search fallback can receive.
fillBangumiFallbackAnswers(j) ==
    LET newGlobalItem == getGlobalAnimeItemByMal(StringOf(j.items[j.k].idMal))
    IN IF newGlobalItem = Null THEN {Null}
       ELSE IF compareFetchesSubject(j.item, newGlobalItem,
                    maxSimilarity(j.item.titles, newGlobalItem, 0) < FallbackThreshold)
       THEN cachedAnswers(j.subject, j.entry.bgm_id)
       ELSE {Null}

\* The job moves to the next search result, or writes an unmatched result
\* when there is none left.
nextResult(j) ==
    IF j.k = Len(j.items) THEN unmatched(j) ELSE goesOn([j EXCEPT !.k = j.k + 1], "fallback")

\* One iteration of the loop over anilistItems: the catalog item of the
\* result's MyAnimeList id, its similarity, and the compatibility check in
\* strict mode when the similarity is below 0.75.
fillBangumiFallback(j, subject) ==
    LET newGlobalItem == getGlobalAnimeItemByMal(StringOf(j.items[j.k].idMal))
        sim == maxSimilarity(j.item.titles, newGlobalItem, 0)
        strict == sim < FallbackThreshold
        ok == compareChinaWithGlobal(j.item, newGlobalItem, strict, subject)
        checked == [j EXCEPT !.fchecks = Append(j.fchecks,
                        [anime |-> newGlobalItem, score |-> sim, strict |-> strict, ok |-> ok])]
    IN IF newGlobalItem = Null THEN nextResult(j)
       ELSE IF ok THEN matched(checked, newGlobalItem)
       ELSE nextResult(checked)

\* The job of fillAnilistCollection from getGlobalAnimeItemByAnilist on:
\* without a global item an unmatched result, otherwise
\* matchGlobalToChina(globalItem) is called.
fillAnilistLookup(j, subject) ==
    LET globalItem == getGlobalAnimeItemByAnilist(j.entry.anilist_id)
    IN IF globalItem = Null THEN unmatched(j)
       ELSE Effect([j EXCEPT !.pc = "match", !.item = globalItem], "running", <<>>,
                   <<matchGlobalToChinaEnter(globalItem, Threshold, subject, Now)>>)

\* The job of fillAnilistCollection up to its first await.
fillAnilistEnter(j, subject) ==
    LET manual_id == manualOf("anilist_id", j.entry.anilist_id)
    IN IF j.entry.anilist_id = NoId THEN unmatched(j)
       ELSE IF isIgnored("gc", j.entry) THEN unmatched(j)
       ELSE IF manual_id # Null /\ manual_id.bgm_id # NoId THEN goesOn(j, "manual")
       ELSE fillAnilistLookup(j, subject)

\* The job of fillAnilistCollection after getChinaAnimeItem(manual_id[0], false).
fillAnilistManual(j, manualSubject, subject) ==
    LET cn == getChinaAnimeItem(manualOf("anilist_id", j.entry.anilist_id).bgm_id,
                                FALSE, manualSubject, Now)
    IN IF cn # Null THEN matched(j, cn) ELSE fillAnilistLookup(j, subject)

\* if (!bgmItem.id) continue
hasId(bgmItem) == bgmItem.id # NoId

\* The job of fillAnilistCollection after bangumiClient.searchAnime(anilistItem.title).
fillAnilistSearch(j, bgmItems) ==
    IF SelectSeq(bgmItems, hasId) = <<>> THEN unmatched(j)
    ELSE goesOn([j EXCEPT !.items = SelectSeq(bgmItems, hasId), !.k = 1], "fallback")

\* One iteration of the loop over bgmItems: the China item of the result
\* (subject: the answer to its getChinaAnimeItem), its similarity, and the
\* compatibility check (episodes: the answer to its getSubjectById).
fillAnilistFallback(j, subject, episodes) ==
    LET newCnItem == getChinaAnimeItem(j.items[j.k].id, TRUE, subject, Now)
        sim == maxSimilarity(newCnItem.titles, j.item, 0)
        strict == sim < FallbackThreshold
        ok == compareChinaWithGlobal(newCnItem, j.item, strict, episodes)
        checked == [j EXCEPT !.fchecks = Append(j.fchecks,
                        [anime |-> newCnItem, score |-> sim, strict |-> strict, ok |-> ok])]
    IN IF newCnItem = Null THEN nextResult(j)
       ELSE IF ok THEN matched(checked, newCnItem)
       ELSE nextResult(checked)

\* Mutant of slotOf: every job writes the first slot.
slotOfFirst(j) == 1

\* The slot a job writes: result[i], i captured by the job's closure.
slotOf(j) == j.i

\* The result loop of fillBangumiCollection on one element: mal_id and
\* anilist_id of a matched entry are set.
fillBangumiFilled(element) ==
    IF element.match = Null THEN element.entry
    ELSE LET mal_id == element.match.mal
             manual_id == manualOf("bgm_id", element.entry.bgm_id)
             anilist_id == IF manual_id # Null THEN manual_id.anilist_id ELSE NoId
         IN [element.entry EXCEPT
                !.mal_id = mal_id,
                !.anilist_id = IF anilist_id = NoId /\ mal_id # NoId
                               THEN getAnilistId(mal_id) ELSE anilist_id]

\* The result loop of fillAnilistCollection on one element.
fillAnilistFilled(element) ==
    IF element.match = Null THEN element.entry
    ELSE [element.entry EXCEPT !.bgm_id = getBgmId(element.match)]

(***************************************************************************)
(* The fillers run through the Scheduler (SpecFill)                        *)
(***************************************************************************)

\* The effect of a step of job j on the job, its result slot and its
\* promise; s is the state of the scheduler.
ApplyEffect(j, s, eff) ==
    /\ job' = [job EXCEPT ![j] = eff.job]
    /\ frame' = IF eff.call = <<>> THEN frame ELSE [frame EXCEPT ![j] = eff.call[1]]
    /\ result' = IF eff.write = <<>> THEN result
                 ELSE [result EXCEPT ![slotOf(eff.job)] =
                            [entry |-> eff.job.entry, match |-> eff.write[1]]]
    /\ writes' = IF eff.write = <<>> THEN writes
                 ELSE Append(writes, [job |-> j, slot |-> slotOf(eff.job)])
    /\ queue' = s.queue
    /\ running' = s.running
    /\ jobState' = [s.jobState EXCEPT ![j] = eff.end]

\* run(task) calls task(): the job that the scheduler has started runs up
\* to its first await.
StartJobs(s) ==
    LET started == {j \in Jobs : jobState[j] # "running" /\ s.jobState[j] = "running"}
    IN IF started = {}
       THEN SetSched(s) /\ UNCHANGED <<job, frame, result, writes>>
       ELSE \E j \in started :
                IF fillDir = "cg" THEN ApplyEffect(j, s, fillBangumiEnter(job[j]))
                ELSE \E subject \in SubjectAnswers("b2") :
                        ApplyEffect(j, s, fillAnilistEnter(job[j], subject))

\* One iteration of the loop of the filler: scheduler.push(async () => ...).
FillPush ==
    /\ callerPc = "pushing"
    /\ pushed < Len(collection)
    /\ pushed' = pushed + 1
    /\ StartJobs(push(SchedState, pushed + 1))
    /\ UNCHANGED <<limit, callerPc, compareVars, changelogVars, catalogVars, ioVars, mainVars, known_relations, relFile, calls,
                   fillDir, collection, loaded, returned>>

\* The fulfilment callback of a job that returned.
FillThenCallback(j) ==
    /\ jobState[j] = "resolved"
    /\ StartJobs(thenCallback(SchedState, j))
    /\ UNCHANGED <<limit, pushed, callerPc, compareVars, changelogVars, catalogVars, ioVars, mainVars, known_relations, relFile, calls,
                   fillDir, collection, loaded, returned>>

\* await scheduler.wait(), called when the loop has pushed every job.
FillCallWait ==
    /\ pushed = Len(collection)
    /\ CallWait

\* A step of a job that touches nothing but the job and its result slot.
JobStep(j, eff) ==
    /\ ApplyEffect(j, SchedState, eff)
    /\ UNCHANGED <<limit, pushed, callerPc, compareVars, changelogVars, catalogVars, ioVars, mainVars, known_relations, relFile, calls,
                   fillDir, collection, loaded, returned>>

Awaiting(j, pc) == jobState[j] = "running" /\ job[j].pc = pc

\* The job resumes after the lookup of its manual relation.
JobManual(j) ==
    /\ Awaiting(j, "manual")
    /\ IF fillDir = "cg" THEN JobStep(j, fillBangumiManual(job[j]))
       ELSE \E manualSubject \in SubjectAnswers("b9"), subject \in SubjectAnswers("b2") :
                JobStep(j, fillAnilistManual(job[j], manualSubject, subject))

\* The job resumes after getChinaAnimeItem(bgm_id).
JobChina(j) ==
    /\ Awaiting(j, "china")
    /\ \E subject \in chinaAnswers(job[j].entry.bgm_id) :
            JobStep(j, fillBangumiChina(job[j], subject))

\* The job resumes after getChinaAnimeItem(bgm_id, false).
JobRelaxed(j) ==
    /\ Awaiting(j, "relaxed")
    /\ \E subject \in cachedAnswers(job[j].subject, job[j].entry.bgm_id) :
            JobStep(j, fillBangumiRelaxed(job[j], subject))

\* The job resumes after the searchAnime of the relaxed lookup.
JobUnaired(j) ==
    /\ Awaiting(j, "unaired")
    /\ \E answer \in AnilistSearchAnswers : JobStep(j, fillBangumiUnaired(job[j], answer))

\* The job resumes after its matcher returned.
JobAfterMatch(j) ==
    /\ Awaiting(j, "match")
    /\ frame[j].pc = "ret"
    /\ JobStep(j, afterMatch(fillDir, job[j], frame[j].ret))

\* The job resumes after the title search.
JobSearch(j) ==
    /\ Awaiting(j, "search")
    /\ IF fillDir = "cg"
       THEN \E answer \in AnilistSearchAnswers : JobStep(j, fillBangumiSearch(job[j], answer))
       ELSE \E bgmItems \in BangumiSearchAnswers : JobStep(j, fillAnilistSearch(job[j], bgmItems))

\* One iteration of the loop over the search results.
JobFallback(j) ==
    /\ Awaiting(j, "fallback")
    /\ IF fillDir = "cg"
       THEN \E subject \in fillBangumiFallbackAnswers(job[j]) :
                JobStep(j, fillBangumiFallback(job[j], subject))
       ELSE \E subject \in chinaAnswers(job[j].items[job[j].k].id) :
            \E episodes \in (IF bgmIdMapGet(job[j].items[job[j].k].id) = Null
                             THEN {subject} ELSE SubjectAnswers(job[j].items[job[j].k].id)) :
                JobStep(j, fillAnilistFallback(job[j], subject, episodes))

\* The filler after wait(): the result loop over every slot and the
\* returned array, result.map(element => element.bgm).
FillReturn ==
    /\ callerPc = "returned"
    /\ IF \E i \in 1..Len(result) : result[i] = Null
       THEN callerPc' = "threw" /\ UNCHANGED returned
       ELSE /\ callerPc' = "finished"
            /\ returned' = [i \in 1..Len(result) |->
                              IF fillDir = "cg" THEN fillBangumiFilled(result[i])
                              ELSE fillAnilistFilled(result[i])]
    /\ UNCHANGED <<limit, queue, running, jobState, pushed, compareVars, changelogVars, catalogVars, ioVars, mainVars, matchVars,
                   fillDir, collection, result, job, writes, loaded>>

\* The entries of the collections of the model.
BangumiEntries ==
    [catalog |-> AnimeCollection("b1", NoId, NoId, NoId, 0),
     remote |-> AnimeCollection("b2", NoId, NoId, NoId, 0),
     sequel |-> AnimeCollection("b3", NoId, NoId, NoId, 0),
     none |-> AnimeCollection(NoId, NoId, NoId, NoId, 0),
     ignored |-> AnimeCollection("b8", NoId, NoId, NoId, 0),
     manual |-> AnimeCollection("b9", NoId, NoId, NoId, 0)]

AnilistEntries ==
    [catalog |-> AnimeCollection(NoId, "m1", "a1", "g1", 0),
     untitled |-> AnimeCollection(NoId, "m1", "a1", NoId, 0),
     absent |-> AnimeCollection(NoId, "m5", "a5", "g5", 0),
     none |-> AnimeCollection(NoId, NoId, NoId, "g1", 0),
     ignored |-> AnimeCollection(NoId, "m8", "a8", "g8", 0),
     manual |-> AnimeCollection(NoId, "m2", "a2", "g2", 0)]

\* The collections of the model: MaxEntries entries, taken in turn from a
\* sequence of kinds, each with its own update_time.
BangumiBatches == {<<"catalog", "remote">>, <<"manual", "ignored">>, <<"none", "catalog">>}

AnilistBatches == {<<"catalog", "manual">>, <<"untitled", "ignored">>, <<"none", "absent">>}

BatchOf(entries, kinds) ==
    [i \in 1..MaxEntries |->
        [entries[kinds[((i - 1) % Len(kinds)) + 1]] EXCEPT !.update_time = i]]

InitFill ==
    /\ limit = FillLimit
    /\ queue = <<>>
    /\ running = 0
    /\ jobState = [j \in Jobs |-> "new"]
    /\ pushed = 0
    /\ callerPc = "pushing"
    /\ \/ /\ fillDir = "cg"
          /\ china_anime_data = <<ChinaItem(<<"t1">>, "tv", 2021, 12, BangumiSite("b1"))>>
          /\ \E p1 \in {<<TRUE, "FALL", "TV">>, <<TRUE, "SPRING", "TV">>} :
                global_anime_data = <<GlobalOf(1, p1), GlobalOf(2, <<TRUE, "FALL", "TV">>)>>
          /\ \E a \in {40, 80}, b \in {0, 40}, c \in {0, 80} : score = ScoreTable(a, b, c, 0)
          /\ \E kinds \in BangumiBatches : collection = BatchOf(BangumiEntries, kinds)
       \/ /\ fillDir = "gc"
          /\ china_anime_data = <<ChinaItem(<<"t2", "t3">>, "tv", 2021, 12, BangumiSite("b2")),
                                  ChinaItem(<<"t1">>, "tv", 2021, 12, BangumiSite("b1"))>>
          /\ \E p1 \in {<<TRUE, "FALL", "TV">>, <<TRUE, "SPRING", "TV">>} :
                global_anime_data = <<GlobalOf(1, p1), GlobalOf(2, <<TRUE, "FALL", "TV">>)>>
          /\ \E a \in {40, 80}, b \in {0, 90}, c \in {0, 80} : score = ScoreTable(a, b, c, 0)
          /\ \E kinds \in AnilistBatches : collection = BatchOf(AnilistEntries, kinds)
    /\ known_relations \in {<<>>, <<Relation("b1", "m2", "t1")>>}
    /\ relFile = known_relations
    /\ loaded = known_relations
    /\ frame = [j \in Jobs |-> IdleFrame]
    /\ calls = 0
    /\ result = [i \in 1..Len(collection) |-> Null]
    /\ job = [j \in Jobs |-> JobRec(j, IF j <= Len(collection) THEN collection[j] ELSE Null)]
    /\ writes = <<>>
    /\ returned = Null
    /\ NoIo
    /\ NoCompare
    /\ NoChangelog
    /\ NoMain

NextFill ==
    \/ FillPush
    \/ \E j \in Jobs : FillThenCallback(j)
    \/ FillCallWait
    \/ WaitPoll
    \/ \E j \in Jobs : JobManual(j)
    \/ \E j \in Jobs : JobChina(j)
    \/ \E j \in Jobs : JobRelaxed(j)
    \/ \E j \in Jobs : JobUnaired(j)
    \/ \E j \in Jobs : StepMatchChinaToGlobal(j)
    \/ \E j \in Jobs : StepMatchGlobalToChina(j)
    \/ \E j \in Jobs : JobAfterMatch(j)
    \/ \E j \in Jobs : JobSearch(j)
    \/ \E j \in Jobs : JobFallback(j)
    \/ FillReturn

SpecFill == InitFill /\ [][NextFill]_vars

\* fillBangumiCollection on two entries that the China catalog lacks and
\* whose subjects bgm.tv names alike, a title and its sequel: each job asks
\* bgm.tv for its subject, and the answers come back in either order.
InitOrder ==
    /\ limit = FillLimit
    /\ queue = <<>>
    /\ running = 0
    /\ jobState = [j \in Jobs |-> "new"]
    /\ pushed = 0
    /\ callerPc = "pushing"
    /\ fillDir = "cg"
    /\ china_anime_data = <<ChinaItem(<<"t1">>, "tv", 2021, 12, BangumiSite("b1"))>>
    /\ global_anime_data = <<GlobalOf(1, <<TRUE, "FALL", "TV">>), GlobalOf(2, <<TRUE, "FALL", "TV">>)>>
    /\ \E c \in {0, 80} : score = ScoreTable(80, 0, c, 0)
    /\ collection = BatchOf(BangumiEntries, <<"remote", "sequel">>)
    /\ known_relations = <<>>
    /\ relFile = known_relations
    /\ loaded = known_relations
    /\ frame = [j \in Jobs |-> IdleFrame]
    /\ calls = 0
    /\ result = [i \in 1..Len(collection) |-> Null]
    /\ job = [j \in Jobs |-> JobRec(j, IF j <= Len(collection) THEN collection[j] ELSE Null)]
    /\ writes = <<>>
    /\ returned = Null
    /\ NoIo
    /\ NoCompare
    /\ NoChangelog
    /\ NoMain

NextOrder ==
    \/ FillPush
    \/ \E j \in Jobs : FillThenCallback(j)
    \/ FillCallWait
    \/ WaitPoll
    \/ \E j \in Jobs : JobChina(j)
    \/ \E j \in Jobs : JobRelaxed(j)
    \/ \E j \in Jobs : JobUnaired(j)
    \/ \E j \in Jobs : StepMatchChinaToGlobal(j)
    \/ \E j \in Jobs : JobAfterMatch(j)
    \/ \E j \in Jobs : JobSearch(j)
    \/ \E j \in Jobs : JobFallback(j)
    \/ FillReturn

SpecOrder == InitOrder /\ [][NextOrder]_vars

(***************************************************************************)
(* compareChinaWithGlobal called on its own (src/utils/data_util.ts)       *)
(***************************************************************************)

\* ChinaAnimeData.Type, GlobalAnimeData.Type and GlobalAnimeData.Season.
ChinaType == {"movie", "ova", "tv", "web"}
GlobalType == {"MOVIE", "ONA", "OVA", "SPECIAL", "TV", "UNKNOWN"}
Season == {"FALL", "SPRING", "SUMMER", "UNDEFINED", "WINTER"}

\* The values of china.begin.getMonth() + 1.
Months == 1..12

\* The arguments and locals of one invocation; subject is what the awaited
\* getSubjectById answered, fetched whether the call was made.
CompareFrame(pc, china, global, strictMode, fetched, subject, ret) ==
    [pc |-> pc, china |-> china, global |-> global, strictMode |-> strictMode,
     fetched |-> fetched, subject |-> subject, ret |-> ret]

\* What getSubjectById(<string>getBgmId(china)) may answer: nothing for the
\* id of no subject.
compareSubjectAnswers(china) ==
    IF getBgmId(china) = NoId THEN {Null} ELSE SubjectAnswers(getBgmId(china))

\* compareChinaWithGlobal from its entry to its return or to the await of
\* getSubjectById.
compareEnter(f) ==
    IF compareFetchesSubject(f.china, f.global, f.strictMode)
    THEN [f EXCEPT !.pc = "awaiting", !.fetched = TRUE]
    ELSE [f EXCEPT !.pc = "returned",
                   !.ret = compareChinaWithGlobal(f.china, f.global, f.strictMode, Null)]

\* compareChinaWithGlobal from the answer of getSubjectById to its return.
compareResume(f, subject) ==
    [f EXCEPT !.pc = "returned", !.subject = subject,
              !.ret = compareChinaWithGlobal(f.china, f.global, f.strictMode, subject)]

CompareEnter ==
    /\ compare.pc = "called"
    /\ compare' = compareEnter(compare)
    /\ UNCHANGED <<schedVars, catalogVars, ioVars, mainVars, matchVars, fillVars, changelogVars>>

CompareResume ==
    /\ compare.pc = "awaiting"
    /\ \E subject \in compareSubjectAnswers(compare.china) :
            compare' = compareResume(compare, subject)
    /\ UNCHANGED <<schedVars, catalogVars, ioVars, mainVars, matchVars, fillVars, changelogVars>>

\* The pairs compareChinaWithGlobal is called on.
CompareChinaItems ==
    {ChinaItem(<<"t1">>, type, year, month, sites) :
        type \in ChinaType, year \in {2021, 2022}, month \in Months,
        sites \in {<<>>, BangumiSite("b1")}}

CompareGlobalItems ==
    {GlobalItem("g1", type, episodes, season, 2021, "m1", "a1") :
        type \in GlobalType, episodes \in {12, 24}, season \in Season}

InitCompare ==
    /\ limit = 1
    /\ queue = <<>>
    /\ running = 0
    /\ jobState = [j \in Jobs |-> "new"]
    /\ pushed = 0
    /\ callerPc = "pushing"
    /\ china_anime_data = <<>>
    /\ global_anime_data = <<>>
    /\ score = <<>>
    /\ known_relations = <<>>
    /\ relFile = <<>>
    /\ frame = <<>>
    /\ calls = 0
    /\ fillDir = "none"
    /\ collection = <<>>
    /\ result = <<>>
    /\ job = <<>>
    /\ writes = <<>>
    /\ loaded = known_relations
    /\ returned = Null
    /\ NoIo
    /\ \E china \in CompareChinaItems, global \in CompareGlobalItems, strictMode \in BOOLEAN :
            compare = CompareFrame("called", china, global, strictMode, FALSE, Null, Null)
    /\ NoChangelog
    /\ NoMain

NextCompare ==
    \/ CompareEnter
    \/ CompareResume

SpecCompare == InitCompare /\ [][NextCompare]_vars

(***************************************************************************)
(* generateChangelog (src/utils/sync_util.ts)                              *)
(***************************************************************************)

\* AnimeCollection (src/types/anime_collection.ts) with the fields
\* generateChangelog reads and writes.
WatchEntry(bgm_id, mal_id, anilist_id, title, status, watched, rate, comments, update_time) ==
    [bgm_id |-> bgm_id, mal_id |-> mal_id, anilist_id |-> anilist_id, title |-> title,
     status |-> status, watched_episodes |-> watched, score |-> rate,
     comments |-> comments, update_time |-> update_time]

\* if (!bangumi.mal_id && !bangumi.anilist_id) continue;
lacksIds(bangumi) == bangumi.mal_id = NoId /\ bangumi.anilist_id = NoId

\* globalEpisodeCount: item?.episodes || 0 of the catalog item found by the
\* MyAnimeList id when the entry has one, by the AniList id otherwise.
globalEpisodeCount(bangumi) ==
    LET item == IF bangumi.mal_id # NoId
                THEN getGlobalAnimeItemByMal(bangumi.mal_id)
                ELSE getGlobalAnimeItemByAnilist(StringOf(bangumi.anilist_id))
    IN IF item = Null THEN 0 ELSE item.episodes

\* The episode count fix with the test for Completed left out.
fixEpisodeCountExceedingOnly(bangumi) ==
    IF bangumi.watched_episodes > globalEpisodeCount(bangumi)
    THEN [bangumi EXCEPT !.watched_episodes = globalEpisodeCount(bangumi)]
    ELSE bangumi

\* "Fix bangumi episode count".
fixEpisodeCount(bangumi) ==
    IF \/ bangumi.status = "Completed"
       \/ bangumi.watched_episodes > globalEpisodeCount(bangumi)
    THEN [bangumi EXCEPT !.watched_episodes = globalEpisodeCount(bangumi)]
    ELSE bangumi

\* The find with the MyAnimeList id tried first.
counterpartByMalFirst(anilistColl, bangumi) ==
    FirstTrue([k \in 1..Len(anilistColl) |->
                IF bangumi.mal_id # NoId
                THEN anilistColl[k].mal_id = bangumi.mal_id
                ELSE anilistColl[k].anilist_id = bangumi.anilist_id])

\* anilistCollection.find(...): the position of the first entry with the
\* source entry's anilist_id when it has one, with its mal_id otherwise; 0
\* when find returns undefined.
counterpartOf(anilistColl, bangumi) ==
    FirstTrue([k \in 1..Len(anilistColl) |->
                IF bangumi.anilist_id # NoId
                THEN anilistColl[k].anilist_id = bangumi.anilist_id
                ELSE anilistColl[k].mal_id = bangumi.mal_id])

\* The comparison with the status left out.
entriesDifferButStatus(bangumi, anilist) ==
    \/ bangumi.score # anilist.score
    \/ bangumi.watched_episodes # anilist.watched_episodes

\* bangumi.score != anilist.score || bangumi.status != anilist.status ||
\* bangumi.watched_episodes != anilist.watched_episodes
entriesDiffer(bangumi, anilist) ==
    \/ bangumi.score # anilist.score
    \/ bangumi.status # anilist.status
    \/ bangumi.watched_episodes # anilist.watched_episodes

\* "Sync ids" and "Sync titles", on the source entry.
syncedSource(bangumi, anilist) ==
    LET ids == [bangumi EXCEPT !.mal_id = anilist.mal_id, !.anilist_id = anilist.anilist_id]
        title == IF anilist.title = NoId THEN bangumi.title ELSE anilist.title
    IN IF ids.title = NoId THEN [ids EXCEPT !.title = title] ELSE ids

\* "Sync ids" and "Sync titles", on the target entry.
syncedTarget(bangumi, anilist) ==
    LET ids == [anilist EXCEPT !.bgm_id = bangumi.bgm_id]
    IN IF ids.title = NoId THEN [ids EXCEPT !.title = bangumi.title] ELSE ids

\* An element of result: the entries are shared with the collections, so the
\* model holds their positions; before is 0 when the element has none.
Change(before, after) == [before |-> before, after |-> after]

\* The state generateChangelog works on.
GenState(source, target, res) == [source |-> source, target |-> target, result |-> res]

\* One iteration of for (let bangumi of bangumiCollection).
generateIteration(g, i, sync) ==
    IF lacksIds(g.source[i]) THEN g
    ELSE LET fixed == fixEpisodeCount(g.source[i])
             k == counterpartOf(g.target, fixed)
         IN IF k = 0
            THEN GenState([g.source EXCEPT ![i] = fixed], g.target,
                          Append(g.result, Change(0, i)))
            ELSE LET bangumi == syncedSource(fixed, g.target[k])
                     anilist == syncedTarget(fixed, g.target[k])
                     compared == IF entriesDiffer(bangumi, anilist)
                                 THEN Append(g.result, Change(k, i)) ELSE g.result
                     commented == IF sync /\ anilist.comments # bangumi.comments
                                  THEN Append(compared, Change(k, i)) ELSE compared
                 IN GenState([g.source EXCEPT ![i] = bangumi],
                             [g.target EXCEPT ![k] = anilist], commented)

\* let result = [] and the start of the loop.
GenerateEnter ==
    /\ genPc = "called"
    /\ genPc' = "loop"
    /\ genIdx' = 1
    /\ changelog' = <<>>
    /\ UNCHANGED <<backwardMode, syncComment, bangumiCollection, anilistCollection, given>>
    /\ UNCHANGED <<schedVars, catalogVars, ioVars, mainVars, matchVars, fillVars, compareVars>>

GenerateIteration ==
    /\ genPc = "loop"
    /\ genIdx <= Len(bangumiCollection)
    /\ LET g == generateIteration(GenState(bangumiCollection, anilistCollection, changelog),
                                  genIdx, syncComment)
       IN /\ bangumiCollection' = g.source
          /\ anilistCollection' = g.target
          /\ changelog' = g.result
    /\ genIdx' = genIdx + 1
    /\ UNCHANGED <<backwardMode, syncComment, given, genPc>>
    /\ UNCHANGED <<schedVars, catalogVars, ioVars, mainVars, matchVars, fillVars, compareVars>>

\* return result;
GenerateReturn ==
    /\ genPc = "loop"
    /\ genIdx > Len(bangumiCollection)
    /\ genPc' = "returned"
    /\ UNCHANGED <<backwardMode, syncComment, bangumiCollection, anilistCollection,
                   given, changelog, genIdx>>
    /\ UNCHANGED <<schedVars, catalogVars, ioVars, mainVars, matchVars, fillVars, compareVars>>

\* The ids of the titles of the model on bgm.tv, MyAnimeList and AniList.
BgmIdOf(k) == <<"b1", "b2", "b3", "b4">>[k]
MalIdOf(k) == <<"m1", "m2", "m3", "m4">>[k]
AnilistIdOf(k) == <<"a1", "a2", "a3", "a4">>[k]

\* The catalogs generateChangelog reads episode totals from: title 1 with a
\* total of 12 or 24 or absent, title 2 known by its AniList id alone, the
\* other titles absent.
ChangelogCatalogs ==
    LET g2 == GlobalItem("g2", "TV", 24, "FALL", 2021, NoId, "a2")
    IN {<<GlobalItem("g1", "TV", 12, "FALL", 2021, "m1", "a1"), g2>>,
        <<GlobalItem("g1", "TV", 24, "FALL", 2021, "m1", "a1"), g2>>,
        <<g2>>}

\* The entries of a Bangumi collection for title k (getBangumiCollections,
\* then fillBangumiCollection): the ids of the other catalogs are those the
\* filler found.
BangumiSide(k) ==
    IF k = 1
    THEN {WatchEntry("b1", ids[1], ids[2], NoId, status, watched, 8, "c1", 1) :
            ids \in {<<"m1", "a1">>, <<"m1", NoId>>, <<NoId, "a1">>, <<NoId, NoId>>,
                     <<"m1", "a2">>},
            status \in {"Completed", "Watching"}, watched \in {5, 12, 30}}
    ELSE {WatchEntry(BgmIdOf(k), NoId, anilist_id, NoId, status, 5, 8, "c1", 1) :
            anilist_id \in {NoId, AnilistIdOf(k)}, status \in {"Completed", "Watching"}}

\* The entries of an Anilist collection for title k (getAnilistCollections,
\* then fillAnilistCollection when bgm_ids holds more than NoId): mal_id is
\* String(idMal) and anilist_id String(id).
AnilistSide(k, bgm_ids) ==
    IF k = 1
    THEN {WatchEntry(bgm_id, "m1", "a1", "T1", status, watched, rate, comments, 2) :
            bgm_id \in bgm_ids, status \in {"Completed", "Watching"}, watched \in {5, 12},
            rate \in {8, 6}, comments \in {"c1", ""}}
    ELSE {WatchEntry(bgm_id, StringOf(NoId), AnilistIdOf(k), NoId, "Watching", 5, 8, "c1", 2) :
            bgm_id \in bgm_ids}

\* The collections of at most MaxEntries entries, the entry at position k
\* drawn from side[k].
CollectionsOf(side) ==
    UNION {{c \in [1..n -> UNION {side[k] : k \in 1..n}] : \A k \in 1..n : c[k] \in side[k]} :
            n \in 0..MaxEntries}

\* main.ts without flags: generateChangelog(bangumiCollection, anilistCollection, ...).
ForwardCall ==
    /\ backwardMode = FALSE
    /\ bangumiCollection \in CollectionsOf([k \in 1..MaxEntries |-> BangumiSide(k)])
    /\ \E a1 \in AnilistSide(1, {NoId}), a2 \in AnilistSide(2, {NoId}) :
            anilistCollection \in {<<>>, <<a1>>, <<a1, a2>>, <<a2, a1>>}

\* main.ts with --backward: generateChangelog(anilistCollection, bangumiCollection, ...).
BackwardCall ==
    /\ backwardMode = TRUE
    /\ bangumiCollection \in
            CollectionsOf([k \in 1..MaxEntries |->
                {e \in AnilistSide(k, {NoId, BgmIdOf(k)}) :
                    e.score = 8 /\ e.comments = "c1"}])
    /\ \E b1 \in BangumiSide(1) :
            /\ b1.watched_episodes = 12
            /\ b1.mal_id = NoId <=> b1.anilist_id = NoId
            /\ anilistCollection \in {<<>>, <<b1>>}

InitChangelog ==
    /\ limit = 1
    /\ queue = <<>>
    /\ running = 0
    /\ jobState = [j \in Jobs |-> "new"]
    /\ pushed = 0
    /\ callerPc = "pushing"
    /\ china_anime_data = <<>>
    /\ global_anime_data \in ChangelogCatalogs
    /\ score = <<>>
    /\ known_relations = <<>>
    /\ relFile = <<>>
    /\ frame = <<>>
    /\ calls = 0
    /\ fillDir = "none"
    /\ collection = <<>>
    /\ result = <<>>
    /\ job = <<>>
    /\ writes = <<>>
    /\ loaded = known_relations
    /\ returned = Null
    /\ NoIo
    /\ NoCompare
    /\ NoMain
    /\ ForwardCall \/ BackwardCall
    /\ syncComment \in BOOLEAN
    /\ given = [source |-> bangumiCollection, target |-> anilistCollection]
    /\ changelog = <<>>
    /\ genPc = "called"
    /\ genIdx = 0

NextChangelog ==
    \/ GenerateEnter
    \/ GenerateIteration
    \/ GenerateReturn

SpecChangelog == InitChangelog /\ [][NextChangelog]_vars

(***************************************************************************)
(* getBangumiCollections / getAnilistCollections with ignore_entries, then *)
(* generateChangelog (SpecIgnore)                                          *)
(***************************************************************************)

\* getBangumiCollections: if (ignore_entries.bangumi.includes(entry.subject_id)) continue;
keptBangumi(entry) == entry.bgm_id \notin ignore_entries.bangumi

\* getAnilistCollections: the entry is skipped when ignore_entries.anilist
\* holds its media id or ignore_entries.mal its idMal.
keptAnilist(entry) ==
    /\ entry.anilist_id \notin ignore_entries.anilist
    /\ entry.mal_id \notin ignore_entries.mal

\* main.ts 196-219: the two collections are fetched, the ignored entries
\* skipped, and generateChangelog is called in the direction of the mode.
\* Until then bangumiCollection and anilistCollection hold what the source
\* and the target platform have, with the ids the fillers find.
FetchCollections ==
    /\ genPc = "fetch"
    /\ LET source == IF backwardMode THEN SelectSeq(bangumiCollection, keptAnilist)
                     ELSE SelectSeq(bangumiCollection, keptBangumi)
           target == IF backwardMode THEN SelectSeq(anilistCollection, keptBangumi)
                     ELSE SelectSeq(anilistCollection, keptAnilist)
       IN /\ bangumiCollection' = source
          /\ anilistCollection' = target
          /\ given' = [source |-> source, target |-> target]
    /\ genPc' = "called"
    /\ UNCHANGED <<backwardMode, syncComment, changelog, genIdx>>
    /\ UNCHANGED <<schedVars, catalogVars, ioVars, mainVars, matchVars, fillVars, compareVars>>

\* The user's list on bgm.tv: title 1, a title the user ignores on bgm.tv,
\* and two titles whose Anilist entries the user ignores, one by its AniList
\* id, one by its MyAnimeList id.
BangumiList ==
    <<WatchEntry("b1", "m1", "a1", NoId, "Watching", 5, 8, "c1", 1),
      WatchEntry("b8", "m3", "a3", NoId, "Watching", 5, 8, "c1", 1),
      WatchEntry("b2", "m2", "a8", NoId, "Watching", 5, 8, "c1", 1),
      WatchEntry("b3", "m7", "a4", NoId, "Watching", 5, 8, "c1", 1)>>

\* The user's list on AniList for the same titles; filled tells whether
\* fillAnilistCollection has run (--backward) and set the bgm_id.
AnilistList(filled) ==
    <<WatchEntry(IF filled THEN "b1" ELSE NoId, "m1", "a1", "T1", "Watching", 7, 6, "c1", 2),
      WatchEntry(IF filled THEN "b8" ELSE NoId, "m3", "a3", "T3", "Watching", 7, 6, "c1", 2),
      WatchEntry(IF filled THEN "b2" ELSE NoId, "m2", "a8", "T2", "Watching", 7, 6, "c1", 2),
      WatchEntry(IF filled THEN "b3" ELSE NoId, "m7", "a4", "T4", "Watching", 7, 6, "c1", 2)>>

\* The lists that hold some of the entries of list, in its order.
SubListsOf(list) ==
    {LET in(n) == n \in chosen
         at == SelectSeq([n \in 1..Len(list) |-> n], in)
     IN [n \in 1..Len(at) |-> list[at[n]]] : chosen \in SUBSET (1..Len(list))}

InitIgnore ==
    /\ limit = 1
    /\ queue = <<>>
    /\ running = 0
    /\ jobState = [j \in Jobs |-> "new"]
    /\ pushed = 0
    /\ callerPc = "pushing"
    /\ china_anime_data = <<>>
    /\ global_anime_data = <<GlobalItem("g1", "TV", 12, "FALL", 2021, "m1", "a1")>>
    /\ score = <<>>
    /\ known_relations = <<>>
    /\ relFile = <<>>
    /\ frame = <<>>
    /\ calls = 0
    /\ fillDir = "none"
    /\ collection = <<>>
    /\ result = <<>>
    /\ job = <<>>
    /\ writes = <<>>
    /\ loaded = known_relations
    /\ returned = Null
    /\ NoIo
    /\ NoCompare
    /\ NoMain
    /\ backwardMode \in BOOLEAN
    /\ syncComment \in BOOLEAN
    /\ bangumiCollection \in SubListsOf(IF backwardMode THEN AnilistList(TRUE) ELSE BangumiList)
    /\ anilistCollection \in SubListsOf(IF backwardMode THEN BangumiList ELSE AnilistList(FALSE))
    /\ given = Null
    /\ changelog = <<>>
    /\ genPc = "fetch"
    /\ genIdx = 0

NextIgnore ==
    \/ FetchCollections
    \/ GenerateEnter
    \/ GenerateIteration
    \/ GenerateReturn

SpecIgnore == InitIgnore /\ [][NextIgnore]_vars

(***************************************************************************)
(* singleMode from the changelog on (src/main.ts) and                      *)
(* AnilistClient.smartUpdateCollection (src/utils/anilist_client.ts)       *)
(***************************************************************************)

\* An element of the changelog as singleMode reads it: the title it is about,
\* the entry to write and the tag, "none" when the element has no tag.
Instruction(title, after, to) == [title |-> title, after |-> after, to |-> to]

\* The merge with the earlier source entry winning.
generateBidirectionalChangelogEarlier(forward, backward, tie) ==
    LET keepForward(c) ==
            \A n \in 1..Len(backward) : backward[n].title = c.title =>
                \/ c.after.update_time < backward[n].after.update_time
                \/ c.after.update_time = backward[n].after.update_time /\ tie = "forward"
        keepBackward(c) ==
            \A n \in 1..Len(forward) : forward[n].title = c.title =>
                \/ c.after.update_time < forward[n].after.update_time
                \/ c.after.update_time = forward[n].after.update_time /\ tie = "backward"
        toAnilist == SelectSeq(forward, keepForward)
        toBangumi == SelectSeq(backward, keepBackward)
    IN [n \in 1..Len(toAnilist) |-> [toAnilist[n] EXCEPT !.to = "anilist"]]
       \o [n \in 1..Len(toBangumi) |-> [toBangumi[n] EXCEPT !.to = "bangumi"]]

\* generateBidirectionalChangelog: of the instructions of the two directions
\* for one title the one whose source entry (after) has the later update_time
\* is kept, an instruction alone for its title is kept, and each is tagged
\* with its write target: "anilist" for the Bangumi -> Anilist direction,
\* "bangumi" for the other.  tie is the direction kept on equal timestamps.
generateBidirectionalChangelog(forward, backward, tie) ==
    LET keepForward(c) ==
            \A n \in 1..Len(backward) : backward[n].title = c.title =>
                \/ c.after.update_time > backward[n].after.update_time
                \/ c.after.update_time = backward[n].after.update_time /\ tie = "forward"
        keepBackward(c) ==
            \A n \in 1..Len(forward) : forward[n].title = c.title =>
                \/ c.after.update_time > forward[n].after.update_time
                \/ c.after.update_time = forward[n].after.update_time /\ tie = "backward"
        toAnilist == SelectSeq(forward, keepForward)
        toBangumi == SelectSeq(backward, keepBackward)
    IN [n \in 1..Len(toAnilist) |-> [toAnilist[n] EXCEPT !.to = "anilist"]]
       \o [n \in 1..Len(toBangumi) |-> [toBangumi[n] EXCEPT !.to = "bangumi"]]

\* The prompt with every answer taken for a yes.
confirmedAlways(answer) == answer = answer

\* resolve(answer.toLowerCase() === "y" || answer === "")
confirmed(answer) == answer \in {"y", "Y", ""}

\* The list for a client with the tag left unread.
changesToAll(changeLog, tag) ==
    [n \in 1..Len(changeLog) |-> changeLog[n].after]

\* changeLog.filter(c => c.to === tag).map(c => c.after)
changesTo(changeLog, tag) ==
    LET tagged(c) == c.to = tag
        kept == SelectSeq(changeLog, tagged)
    IN [n \in 1..Len(kept) |-> kept[n].after]

\* changeLog.map(c => c.after)
afterOf(changeLog) == [n \in 1..Len(changeLog) |-> changeLog[n].after]

\* The key smartUpdateCollection groups the entries by.
groupKey(cur, sync) ==
    <<cur.status, cur.score, cur.watched_episodes, IF sync THEN cur.comments ELSE "">>

\* for (const key in grouped) for (let c of collections): the positions of
\* the entries in the order the loops visit them, group by group in the
\* order the keys were first seen.
RECURSIVE groupedFrom(_, _, _)
groupedFrom(coll, sync, i) ==
    IF i > Len(coll) THEN <<>>
    ELSE LET first == \A h \in 1..(i - 1) : groupKey(coll[h], sync) # groupKey(coll[i], sync)
             same(n) == groupKey(coll[n], sync) = groupKey(coll[i], sync)
             group == SelectSeq([n \in 1..Len(coll) |-> n], same)
         IN (IF first THEN group ELSE <<>>) \o groupedFrom(coll, sync, i + 1)

\* collection.length <= 70: every group is written entry by entry.
SingleQueryMax == 70

\* findAnilistId up to its remote call: the id of the entry, else the id the
\* catalog has for its mal_id; NoId when this.getId has to be asked, "throws"
\* when it throws ("Anilist and Bangumi ID both missing").
findAnilistId(c) ==
    IF c.anilist_id # NoId THEN c.anilist_id
    ELSE IF c.mal_id = NoId THEN "throws"
    ELSE getAnilistId(c.mal_id)

\* What this.query(SaveMediaListEntry) can give saveEntry: the saved entry,
\* data without it, or null once the retries are used up.
QueryAnswers == {"saved", "empty", "null"}

\* What this.getId can give: the id of the media, or null.
GetIdAnswers == {"a9", NoId}

\* const id = await findAnilistId(c); if (id) { c.anilist_id = id;
\* await this.saveEntry(c, syncComment); successCount++; }
countedAfterSave(count, id, answer) ==
    IF id # NoId THEN count + 1 ELSE count

\* The locals of singleMode and of the smartUpdateCollection it calls, with
\* what was sent: sent and saved hold the positions in aniChanges for which
\* a SaveMediaListEntry query was sent and for which it saved the entry.
MainState(pc, bothMode, backward, userConfirm, sync, forwardLog, backwardLog) ==
    [pc |-> pc, bothMode |-> bothMode, backwardMode |-> backward,
     userConfirm |-> userConfirm, sync_comments |-> sync,
     forwardLog |-> forwardLog, backwardLog |-> backwardLog,
     changeLog |-> <<>>, answer |-> "unasked",
     aniChanges |-> <<>>, bgmChanges |-> <<>>, order |-> <<>>, k |-> 0,
     successCount |-> 0, sent |-> {}, saved |-> {},
     anilistCalled |-> FALSE, bangumiCalled |-> FALSE, successBgm |-> 0]

\* main.ts 212-238: the changelog of the mode and the return on an empty one.
GenerateChangeLog ==
    /\ main.pc = "changelog"
    /\ \E tie \in {"forward", "backward"} :
        LET changeLog == IF main.bothMode
                         THEN generateBidirectionalChangelog(main.forwardLog, main.backwardLog, tie)
                         ELSE IF main.backwardMode THEN main.backwardLog
                         ELSE main.forwardLog
        IN main' = [main EXCEPT !.changeLog = changeLog,
                                !.pc = IF Len(changeLog) = 0 THEN "done"
                                       ELSE IF main.userConfirm THEN "confirm"
                                       ELSE "apply"]
    /\ UNCHANGED <<schedVars, catalogVars, ioVars, matchVars, fillVars, compareVars, changelogVars>>

\* What the user can type at "Confirm? (y/n) ".
Answers == {"y", "Y", "", "n", "yes"}

\* main.ts 240-251: the prompt.
Confirm ==
    /\ main.pc = "confirm"
    /\ \E answer \in Answers :
        main' = [main EXCEPT !.answer = answer,
                             !.pc = IF confirmed(answer) THEN "apply" ELSE "done"]
    /\ UNCHANGED <<schedVars, catalogVars, ioVars, matchVars, fillVars, compareVars, changelogVars>>

\* main.ts 252-263 and 267-280: the lists handed to the two clients, up to
\* the first call.
Apply ==
    /\ main.pc = "apply"
    /\ LET aniChanges == IF main.bothMode THEN changesTo(main.changeLog, "anilist")
                         ELSE IF main.backwardMode THEN <<>>
                         ELSE afterOf(main.changeLog)
           bgmChanges == IF main.bothMode THEN changesTo(main.changeLog, "bangumi")
                         ELSE IF main.backwardMode THEN afterOf(main.changeLog)
                         ELSE <<>>
           toAnilist == main.bothMode \/ ~main.backwardMode
       IN main' = [main EXCEPT !.aniChanges = aniChanges, !.bgmChanges = bgmChanges,
                               !.anilistCalled = toAnilist,
                               !.order = groupedFrom(aniChanges, main.sync_comments, 1),
                               !.k = 1, !.successCount = 0,
                               !.pc = IF toAnilist THEN "anilist" ELSE "bangumi"]
    /\ UNCHANGED <<schedVars, catalogVars, ioVars, matchVars, fillVars, compareVars, changelogVars>>

\* One entry of the single query branch of smartUpdateCollection
\* (anilist_client.ts 207-216, with findAnilistId 192-205 and saveEntry
\* 269-295).  Collections of more than SingleQueryMax entries are beyond the
\* collections of the model.
SmartUpdateEntry ==
    /\ main.pc = "anilist"
    /\ Len(main.aniChanges) <= SingleQueryMax
    /\ main.k <= Len(main.order)
    /\ LET n == main.order[main.k]
           c == main.aniChanges[n]
           id == findAnilistId(c)
       IN IF id = "throws"
          THEN main' = [main EXCEPT !.pc = "threw"]
          ELSE \E got \in (IF id = NoId THEN GetIdAnswers ELSE {id}), answer \in QueryAnswers :
                IF got = NoId
                THEN main' = [main EXCEPT !.k = main.k + 1]
                ELSE IF answer = "null"
                THEN main' = [main EXCEPT !.aniChanges[n].anilist_id = got,
                                          !.sent = main.sent \cup {n},
                                          !.pc = "threw"]
                ELSE main' = [main EXCEPT !.aniChanges[n].anilist_id = got,
                                          !.sent = main.sent \cup {n},
                                          !.saved = IF answer = "saved"
                                                    THEN main.saved \cup {n} ELSE main.saved,
                                          !.successCount =
                                                countedAfterSave(main.successCount, got, answer),
                                          !.k = main.k + 1]
    /\ UNCHANGED <<schedVars, catalogVars, ioVars, matchVars, fillVars, compareVars, changelogVars>>

\* return successCount, and back in singleMode.
SmartUpdateReturn ==
    /\ main.pc = "anilist"
    /\ main.k > Len(main.order)
    /\ main' = [main EXCEPT !.pc = IF main.bothMode THEN "bangumi" ELSE "done"]
    /\ UNCHANGED <<schedVars, catalogVars, ioVars, matchVars, fillVars, compareVars, changelogVars>>

\* bangumiClient.smartUpdateCollection(bgmChanges, config.sync_comments): it
\* receives the list and returns how many entries it applied.
BangumiUpdate ==
    /\ main.pc = "bangumi"
    /\ \E applied \in 0..Len(main.bgmChanges) :
        main' = [main EXCEPT !.bangumiCalled = TRUE, !.successBgm = applied, !.pc = "done"]
    /\ UNCHANGED <<schedVars, catalogVars, ioVars, matchVars, fillVars, compareVars, changelogVars>>

\* The ids fillBangumiCollection can have left on the entry of title k.
ResolvedIds(k) ==
    IF k = 1 THEN {<<"m1", "a1">>, <<"m1", NoId>>}
    ELSE {<<MalIdOf(k), NoId>>, <<NoId, AnilistIdOf(k)>>}

\* What a direction can hold for title k: no instruction (an entry with the
\* tag "absent"), or the instruction to write its entry of that side.
ForwardInstructions(k) ==
    {Instruction(k, Null, "absent")} \cup
    {Instruction(k, WatchEntry(BgmIdOf(k), ids[1], ids[2], NoId, "Watching", 5, 8, "c1", t),
                 "none") : ids \in ResolvedIds(k), t \in 1..2}

BackwardInstructions(k) ==
    {Instruction(k, Null, "absent")} \cup
    {Instruction(k, WatchEntry(BgmIdOf(k), StringOf(NoId), AnilistIdOf(k), NoId, "Watching", 7, 6,
                               "c1", t), "none") : t \in 1..2}

\* The changelogs of one direction over the titles 1..MaxEntries.
ChangeLogsOf(options) ==
    LET present(c) == c.to # "absent"
    IN {SelectSeq(f, present) :
            f \in {g \in [1..MaxEntries -> UNION {options[k] : k \in 1..MaxEntries}] :
                    \A k \in 1..MaxEntries : g[k] \in options[k]}}

InitMain ==
    /\ limit = 1
    /\ queue = <<>>
    /\ running = 0
    /\ jobState = [j \in Jobs |-> "new"]
    /\ pushed = 0
    /\ callerPc = "pushing"
    /\ china_anime_data = <<>>
    /\ global_anime_data = <<GlobalItem("g1", "TV", 12, "FALL", 2021, "m1", "a1")>>
    /\ score = <<>>
    /\ known_relations = <<>>
    /\ relFile = <<>>
    /\ frame = <<>>
    /\ calls = 0
    /\ fillDir = "none"
    /\ collection = <<>>
    /\ result = <<>>
    /\ job = <<>>
    /\ writes = <<>>
    /\ loaded = known_relations
    /\ returned = Null
    /\ NoIo
    /\ NoCompare
    /\ NoChangelog
    /\ \E mode \in {"", "--backward", "--both"}, userConfirm \in BOOLEAN, sync \in BOOLEAN :
       \E forwardLog \in ChangeLogsOf([k \in 1..MaxEntries |-> ForwardInstructions(k)]),
          backwardLog \in ChangeLogsOf([k \in 1..MaxEntries |-> BackwardInstructions(k)]) :
            main = MainState("changelog", mode = "--both", mode = "--backward", userConfirm, sync,
                             forwardLog, backwardLog)

NextMain ==
    \/ GenerateChangeLog
    \/ Confirm
    \/ Apply
    \/ SmartUpdateEntry
    \/ SmartUpdateReturn
    \/ BangumiUpdate

SpecMain == InitMain /\ [][NextMain]_vars

(***************************************************************************)
(* serverMode (src/main.ts): generateChangelog, the write to Anilist and   *)
(* the next iteration of the main loop (SpecConverge)                      *)
(***************************************************************************)

\* The iterations of while (1) the model follows.
MaxIterations == 2

\* AnilistClient.convertStatus.
convertStatus(collectionStatus) ==
    CASE collectionStatus = "Watching" -> "CURRENT"
      [] collectionStatus = "Completed" -> "COMPLETED"
      [] collectionStatus = "OnHold" -> "PAUSED"
      [] collectionStatus = "Dropped" -> "DROPPED"
      [] collectionStatus = "PlanToWatch" -> "PLANNING"

\* getAnilistCollections: the switch over mediaList.status.
collectionStatusOf(mediaListStatus) ==
    CASE mediaListStatus = "CURRENT" -> "Watching"
      [] mediaListStatus \in {"COMPLETED", "REPEATING"} -> "Completed"
      [] mediaListStatus = "PAUSED" -> "OnHold"
      [] mediaListStatus = "DROPPED" -> "Dropped"
      [] mediaListStatus = "PLANNING" -> "PlanToWatch"

\* this.getId(Number(c.mal_id)): the media AniList has for a MyAnimeList id
\* when its format and start date agree with the catalog item of that id;
\* without a catalog item every media of the page is skipped.
getId(mal_id) ==
    LET k == FirstTrue([n \in 1..4 |-> MalIdOf(n) = mal_id])
    IN IF getGlobalAnimeItemByMal(mal_id) = Null \/ k = 0 THEN NoId ELSE AnilistIdOf(k)

\* const id = await findAnilistId(c): NoId when it returns null.
mediaIdOf(c) ==
    LET found == findAnilistId(c)
    IN IF found = NoId THEN getId(c.mal_id) ELSE found

\* saveEntry(c, syncComment) answered with the saved entry, as the list
\* getAnilistCollections reads next: the list entry of media c.anilist_id
\* carries the status, scoreRaw / 10, progress and, with syncComment, the
\* notes of c; a media not in the list gets a new list entry.
saveEntry(list, c, sync) ==
    LET k == FirstTrue([n \in 1..Len(list) |-> list[n].anilist_id = c.anilist_id])
        status == collectionStatusOf(convertStatus(c.status))
        rate == (c.score * 10) \div 10
    IN IF k = 0
       THEN Append(list, WatchEntry(NoId, StringOf(c.mal_id), c.anilist_id, NoId, status,
                                    c.watched_episodes, rate,
                                    IF sync THEN c.comments ELSE "", 3))
       ELSE [list EXCEPT ![k].status = status, ![k].score = rate,
                         ![k].watched_episodes = c.watched_episodes,
                         ![k].comments = IF sync THEN c.comments ELSE @,
                         ![k].update_time = 3]

\* smartUpdateCollection(collection, syncComment) with every query answered:
\* the entries are visited in the order of their groups, and an entry whose
\* id is found is saved under it.
RECURSIVE smartUpdateCollection(_, _, _, _, _)
smartUpdateCollection(list, coll, order, sync, n) ==
    IF n > Len(order) THEN list
    ELSE LET c == coll[order[n]]
             saved == IF mediaIdOf(c) = NoId THEN list
                      ELSE saveEntry(list, [c EXCEPT !.anilist_id = mediaIdOf(c)], sync)
         IN smartUpdateCollection(saved, coll, order, sync, n + 1)

\* The locals of serverMode: the iteration of the main loop, and the
\* changelog and the successCount of the iteration before.
ServerState(iteration, changeLog, successCount) ==
    [pc |-> "server", iteration |-> iteration, changeLog |-> changeLog,
     successCount |-> successCount]

\* main.ts 340-357 without flags, then the sleep and the next iteration up
\* to its call of generateChangelog: the after entries are written to
\* Anilist, the two collections are fetched again (the Bangumi collection
\* is what it was, the Anilist collection what was written) and filled from
\* the same catalogs.
ServerWrite ==
    /\ main.pc = "server"
    /\ main.iteration < MaxIterations
    /\ genPc = "returned"
    /\ LET after == [n \in 1..Len(changelog) |-> bangumiCollection[changelog[n].after]]
           written == smartUpdateCollection(given.target, after,
                                            groupedFrom(after, syncComment, 1),
                                            syncComment, 1)
           success == Cardinality({n \in 1..Len(after) : mediaIdOf(after[n]) # NoId})
       IN /\ anilistCollection' = written
          /\ given' = [source |-> given.source, target |-> written]
          /\ main' = ServerState(main.iteration + 1, changelog, success)
    /\ bangumiCollection' = given.source
    /\ genPc' = "called"
    /\ UNCHANGED <<backwardMode, syncComment, changelog, genIdx>>
    /\ UNCHANGED <<schedVars, catalogVars, ioVars, matchVars, fillVars, compareVars>>

InitConverge ==
    /\ limit = 1
    /\ queue = <<>>
    /\ running = 0
    /\ jobState = [j \in Jobs |-> "new"]
    /\ pushed = 0
    /\ callerPc = "pushing"
    /\ china_anime_data = <<>>
    /\ global_anime_data \in ChangelogCatalogs
    /\ score = <<>>
    /\ known_relations = <<>>
    /\ relFile = <<>>
    /\ frame = <<>>
    /\ calls = 0
    /\ fillDir = "none"
    /\ collection = <<>>
    /\ result = <<>>
    /\ job = <<>>
    /\ writes = <<>>
    /\ loaded = known_relations
    /\ returned = Null
    /\ NoIo
    /\ NoCompare
    /\ main = ServerState(1, <<>>, 0)
    /\ ForwardCall
    /\ syncComment \in BOOLEAN
    /\ given = [source |-> bangumiCollection, target |-> anilistCollection]
    /\ changelog = <<>>
    /\ genPc = "called"
    /\ genIdx = 0

NextConverge ==
    \/ GenerateEnter
    \/ GenerateIteration
    \/ GenerateReturn
    \/ ServerWrite

SpecConverge == InitConverge /\ [][NextConverge]_vars

(***************************************************************************)
(* Remote calls with retries: AnilistClient.query                          *)
(* (src/utils/anilist_client.ts), BangumiClient.getSubjectById and         *)
(* searchAnime (src/utils/bangumi_client.ts) (SpecRetry)                   *)
(***************************************************************************)

\* The default arguments: query(query, variables, retries = 7, delay = 1000),
\* getSubjectById(bgm_id, retries = 5, delay = 250) and
\* searchAnime(title, retries = 5, delay = 250).
QueryRetries == 7
QueryDelay == 1000
BangumiRetries == 5
BangumiDelay == 250

RemoteFunctions == {"query", "getSubjectById", "searchAnime"}

\* One call of a remote function: retries and delay are the arguments of
\* its innermost invocation, first those of the outermost; cached tells
\* whether subjectCache holds the id; attempts counts the requests sent and
\* slept lists the delays waited.
RemoteFrame(fn, retries, delay, cached) ==
    [pc |-> "called", fn |-> fn, retries |-> retries, delay |-> delay,
     first |-> [retries |-> retries, delay |-> delay], cached |-> cached,
     attempts |-> 0, slept |-> <<>>, ret |-> "none"]

\* What the catch block returns when no retry is left: [] in searchAnime,
\* null in query and getSubjectById.
exhausted(fn) == IF fn = "searchAnime" THEN "[]" ELSE "null"

\* The test of the catch block admitting one retry more.
retriesLeftOneMore(retries) == retries >= 0

\* if (retries > 0)
retriesLeft(retries) == retries > 0

\* One invocation from its entry to its return or to the timer of its
\* retry; answer tells whether the request gave a response ("data") or
\* axios threw ("fails").  getSubjectById returns the cached subject
\* without a request.
invocation(r, answer) ==
    IF r.fn = "getSubjectById" /\ r.cached
    THEN [r EXCEPT !.pc = "returned", !.ret = "data"]
    ELSE LET sent == [r EXCEPT !.attempts = @ + 1]
         IN IF answer = "data" THEN [sent EXCEPT !.pc = "returned", !.ret = "data"]
            ELSE IF retriesLeft(r.retries) THEN [sent EXCEPT !.pc = "sleeping"]
            ELSE [sent EXCEPT !.pc = "returned", !.ret = exhausted(r.fn)]

\* await new Promise(resolve => setTimeout(resolve, delay)); return await
\* this.query(query, variables, retries - 1, delay * 2), and the same in
\* getSubjectById and searchAnime.
retried(r) ==
    [r EXCEPT !.pc = "called", !.retries = @ - 1, !.delay = @ * 2,
              !.slept = Append(@, r.delay)]

RemoteInvoke ==
    /\ remote.pc = "called"
    /\ \E answer \in {"data", "fails"} : remote' = invocation(remote, answer)
    /\ UNCHANGED <<schedVars, catalogVars, matchVars, fillVars, compareVars, changelogVars,
                   mainVars, database>>

RemoteRetry ==
    /\ remote.pc = "sleeping"
    /\ remote' = retried(remote)
    /\ UNCHANGED <<schedVars, catalogVars, matchVars, fillVars, compareVars, changelogVars,
                   mainVars, database>>

\* The calls the program makes: with the default arguments, and with fewer
\* retries as the recursive invocations are called.
RemoteCalls ==
    {RemoteFrame("query", retries, QueryDelay, FALSE) : retries \in 0..QueryRetries}
        \cup {RemoteFrame("getSubjectById", retries, BangumiDelay, cached) :
                retries \in 0..BangumiRetries, cached \in BOOLEAN}
        \cup {RemoteFrame("searchAnime", retries, BangumiDelay, FALSE) :
                retries \in 0..BangumiRetries}

InitRetry ==
    /\ limit = 1
    /\ queue = <<>>
    /\ running = 0
    /\ jobState = [j \in Jobs |-> "new"]
    /\ pushed = 0
    /\ callerPc = "pushing"
    /\ china_anime_data = <<>>
    /\ global_anime_data = <<>>
    /\ score = <<>>
    /\ known_relations = <<>>
    /\ relFile = <<>>
    /\ frame = <<>>
    /\ calls = 0
    /\ fillDir = "none"
    /\ collection = <<>>
    /\ result = <<>>
    /\ job = <<>>
    /\ writes = <<>>
    /\ loaded = known_relations
    /\ returned = Null
    /\ NoCompare
    /\ NoChangelog
    /\ NoMain
    /\ database = IdleDatabase
    /\ remote \in RemoteCalls

NextRetry ==
    \/ RemoteInvoke
    \/ RemoteRetry

\* Every request is answered or fails, and every timer fires.
SpecRetry == InitRetry /\ [][NextRetry]_vars /\ WF_vars(NextRetry)

(***************************************************************************)
(* autoUpdateDatabase (src/utils/data_util.ts) and the etag cache          *)
(* (src/utils/cache_util.ts) (SpecEtag)                                    *)
(***************************************************************************)

\* The versions of a catalog its server publishes; version v has etag v.
MaxVersion == 2

EtagTypes == {"china", "global"}

\* What is known of one catalog: the etag recorded in cache.json (0 for
\* ""), the version whose data the snapshot file holds (0 when the file
\* does not exist) and the version on the server.
CatalogState(etag, file, published) == [etag |-> etag, file |-> file, remote |-> published]

\* setEtagCache(etag_type, etag): cache.china_etag = etag, resp.
\* cache.global_etag = etag, and cache.json is written.
setEtagCache(d, etag_type, etag) == [d EXCEPT ![etag_type].etag = etag]

\* "Update if etag changed": the block of autoUpdateDatabase for one
\* catalog; answer tells whether axios.get and writeFileSync went through
\* ("data") or one of them threw ("fails").
updateIfChanged(d, etag_type, etag, answer) ==
    IF etag # d[etag_type].etag \/ d[etag_type].file = 0
    THEN LET stored == IF answer = "data"
                       THEN [d EXCEPT ![etag_type].file = d[etag_type].remote]
                       ELSE d
         IN setEtagCache(stored, etag_type, etag)
    ELSE d

\* The two axios.head requests: on a failure autoUpdateDatabase returns.
FetchEtags ==
    /\ database.pc = "start"
    /\ \E answer \in {"etags", "fails"} :
        database' = IF answer = "fails" THEN database
                    ELSE [database EXCEPT !.pc = "china",
                                          !.china_etag = database.china.remote,
                                          !.global_etag = database.global.remote]
    /\ UNCHANGED <<schedVars, catalogVars, matchVars, fillVars, compareVars, changelogVars,
                   mainVars, remote>>

UpdateChina ==
    /\ database.pc = "china"
    /\ \E answer \in {"data", "fails"} :
        database' = [updateIfChanged(database, "china", database.china_etag, answer)
                        EXCEPT !.pc = "global"]
    /\ UNCHANGED <<schedVars, catalogVars, matchVars, fillVars, compareVars, changelogVars,
                   mainVars, remote>>

\* The block for the global catalog, and the return; buildDatabase calls
\* autoUpdateDatabase again on the next iteration of serverMode.
UpdateGlobal ==
    /\ database.pc = "global"
    /\ \E answer \in {"data", "fails"} :
        database' = [updateIfChanged(database, "global", database.global_etag, answer)
                        EXCEPT !.pc = "start", !.china_etag = 0, !.global_etag = 0]
    /\ UNCHANGED <<schedVars, catalogVars, matchVars, fillVars, compareVars, changelogVars,
                   mainVars, remote>>

\* The server of a catalog publishes its next version.
Publish(etag_type) ==
    /\ database[etag_type].remote < MaxVersion
    /\ database' = [database EXCEPT ![etag_type].remote = @ + 1]
    /\ UNCHANGED <<schedVars, catalogVars, matchVars, fillVars, compareVars, changelogVars,
                   mainVars, remote>>

InitEtag ==
    /\ limit = 1
    /\ queue = <<>>
    /\ running = 0
    /\ jobState = [j \in Jobs |-> "new"]
    /\ pushed = 0
    /\ callerPc = "pushing"
    /\ china_anime_data = <<>>
    /\ global_anime_data = <<>>
    /\ score = <<>>
    /\ known_relations = <<>>
    /\ relFile = <<>>
    /\ frame = <<>>
    /\ calls = 0
    /\ fillDir = "none"
    /\ collection = <<>>
    /\ result = <<>>
    /\ job = <<>>
    /\ writes = <<>>
    /\ loaded = known_relations
    /\ returned = Null
    /\ NoCompare
    /\ NoChangelog
    /\ NoMain
    /\ remote = IdleRemote
    /\ database = [pc |-> "start", china |-> CatalogState(0, 0, 1),
                   global |-> CatalogState(0, 0, 1), china_etag |-> 0, global_etag |-> 0]

NextEtag ==
    \/ FetchEtags
    \/ UpdateChina
    \/ UpdateGlobal
    \/ \E etag_type \in EtagTypes : Publish(etag_type)

SpecEtag == InitEtag /\ [][NextEtag]_vars

(***************************************************************************)
(* Claims about the Scheduler, checked under Spec.                         *)
(***************************************************************************)

\* The tasks that hold an execution slot: pending, or fulfilled with the
\* fulfilment callback still to run.
Occupying == {j \in Jobs : jobState[j] \in {"running", "resolved"}}

\* C1: for any sequence of push calls and job completions, the number of
\* jobs started and not yet completed never exceeds the limit given to the
\* constructor (nor does the running counter).
C1_ConcurrencyBound ==
    /\ Cardinality(InFlight) <= limit
    /\ running <= limit

\* C1 witness: the limit is reached while a further task waits in the queue.
C1_Witness ==
    /\ Cardinality(InFlight) = limit
    /\ Len(queue) > 0

\* C2: wait() returns only when the queue is empty and no job is in flight:
\* every job pushed before it returns has been started and has completed.
C2_WaitReturnsDrained ==
    callerPc = "returned" =>
        /\ queue = <<>>
        /\ InFlight = {}
        /\ \A j \in 1..pushed : jobState[j] = "done"

\* C2 witness: wait() has returned after more jobs than the limit were pushed.
C2_Witness ==
    /\ callerPc = "returned"
    /\ pushed > limit

\* C4: a job whose promise rejects does not stop the Scheduler: its slot is
\* released (running counts only the tasks that still hold a slot) and the
\* queued jobs are started (no task waits while a slot is free).
C4_RejectedJobReleasesSlot ==
    /\ running = Cardinality(Occupying)
    /\ (queue # <<>> => Cardinality(Occupying) = limit)

\* C37: the Scheduler is work-conserving: whenever the queue is non-empty,
\* exactly limit jobs are running (limit >= 1), so no job waits in the queue
\* while an execution slot is free.
C37_WorkConserving ==
    (limit >= 1 /\ Len(queue) > 0) => Cardinality(Occupying) = limit

(***************************************************************************)
(* Claims about the matchers, checked under SpecMatch.                     *)
(***************************************************************************)

\* The invocations made so far.
Invoked == {c \in DOMAIN frame : frame[c].pc # "idle"}

\* The native id under which an invocation looks its argument up.
OwnId(f) == IF f.dir = "cg" THEN getBgmId(f.arg) ELSE f.arg.mal

\* The positions of the relation entries for the argument's own id that the
\* cache held when the matcher was invoked.
KnownAtCall(f) ==
    {i \in 1..f.relLen :
        IF f.dir = "cg" THEN known_relations[i].bgm_id = OwnId(f)
                        ELSE known_relations[i].mal_id = OwnId(f)}

OldestKnown(f) ==
    known_relations[CHOOSE i \in KnownAtCall(f) : \A k \in KnownAtCall(f) : i <= k]

\* Whether a catalog item carries the id a relation entry needs of it.
HasOwnId(dir, anime) ==
    IF dir = "cg" THEN anime.mal # NoId
    ELSE \E i \in 1..Len(anime.sites) : anime.sites[i].site = "bangumi"

\* C7: when the relation cache holds an entry for the argument's own id, the
\* matcher makes no title-similarity comparison and no compatibility check,
\* appends nothing, and returns the catalog entry of the target named by the
\* oldest such cache entry, also when later entries name another target.
C7_CacheHitNoFuzzy ==
    \A c \in Invoked :
        LET f == frame[c]
        IN (OwnId(f) # NoId /\ KnownAtCall(f) # {}) =>
            /\ f.pc = "ret"
            /\ f.fuzzyCalls = 0
            /\ f.checks = <<>>
            /\ f.appendedAt = 0
            /\ f.dir = "cg" =>
                 \/ /\ f.ret # Null
                    /\ f.ret.mal = OldestKnown(f).mal_id
                    /\ \A k \in 1..Len(global_anime_data) :
                          global_anime_data[k].mal = OldestKnown(f).mal_id =>
                          \E i \in 1..k : global_anime_data[i] = f.ret
                 \/ /\ f.ret = Null
                    /\ \A k \in 1..Len(global_anime_data) :
                          global_anime_data[k].mal # OldestKnown(f).mal_id
            /\ f.dir = "gc" =>
                 \/ f.ret # Null /\ getBgmId(f.ret) = OldestKnown(f).bgm_id
                 \/ /\ f.ret = Null
                    /\ \A k \in 1..Len(china_anime_data) :
                          getBgmId(china_anime_data[k]) # OldestKnown(f).bgm_id

\* C7 witness: a hit on a cache whose later entry for the same id names a
\* different target, resolved to the target of the older entry.
C7_Witness ==
    \E c \in Invoked :
        /\ frame[c].hit
        /\ frame[c].ret # Null
        /\ \E i \in KnownAtCall(frame[c]) : known_relations[i] # OldestKnown(frame[c])

\* The number of entries of the cache that hold the pair of relation r.
PairCount(r) ==
    Cardinality({i \in 1..Len(known_relations) :
        known_relations[i].bgm_id = r.bgm_id /\ known_relations[i].mal_id = r.mal_id})

\* C8: a second invocation of a matcher on an entry that an earlier
\* invocation resolved by a cache miss and a match appends nothing: the
\* cache holds that pair exactly once.
C8_SecondInvocationAppendsNothing ==
    \A c1 \in Invoked, c2 \in Invoked :
        (/\ c1 < c2
         /\ frame[c1].dir = frame[c2].dir
         /\ frame[c1].arg = frame[c2].arg
         /\ frame[c1].appendedAt > 0) =>
            /\ frame[c2].appendedAt = 0
            /\ frame[c2].fuzzyCalls = 0
            /\ PairCount(known_relations[frame[c1].appendedAt]) = 1

\* C8 witness: the second invocation on a resolved entry has returned.
C8_Witness ==
    \E c1 \in Invoked, c2 \in Invoked :
        /\ c1 < c2
        /\ frame[c1].dir = frame[c2].dir
        /\ frame[c1].arg = frame[c2].arg
        /\ frame[c1].appendedAt > 0
        /\ frame[c2].pc = "ret"
        /\ frame[c2].ret # Null

\* The relation entry an invocation stores for its result.
PairOf(f) ==
    IF f.dir = "cg" THEN [bgm_id |-> getBgmId(f.arg), mal_id |-> f.ret.mal]
    ELSE [bgm_id |-> getBgmId(f.ret), mal_id |-> f.arg.mal]

\* The candidates an invocation has checked are those of its list, in order.
WalksInOrder(f) ==
    /\ \A i \in 1..Len(f.fuzzyMatch), k \in 1..Len(f.fuzzyMatch) :
            i < k => f.fuzzyMatch[i].score >= f.fuzzyMatch[k].score
    /\ Len(f.checks) <= Len(f.fuzzyMatch)
    /\ \A k \in 1..Len(f.checks) :
            /\ f.checks[k].anime = f.fuzzyMatch[k].anime
            /\ f.checks[k].score = f.fuzzyMatch[k].score

\* The result is stored in the cache and in the file at the position the
\* invocation pushed it to.
StoredAndPersisted(f) ==
    /\ f.appendedAt > 0
    /\ f.appendedAt <= Len(known_relations)
    /\ f.appendedAt <= Len(relFile)
    /\ known_relations[f.appendedAt].bgm_id = PairOf(f).bgm_id
    /\ known_relations[f.appendedAt].mal_id = PairOf(f).mal_id
    /\ relFile[f.appendedAt] = known_relations[f.appendedAt]

\* C9 as amended: on a cache miss the matcher walks the candidates in
\* descending score order and returns the first candidate that passes the
\* compatibility check and carries the id the relation entry needs
\* (MyAnimeList id, resp. bgm.tv id), the pair being appended to the cache
\* and persisted before it returns; it returns null when no candidate does.
C9_FirstStorablePassingCandidate ==
    \A c \in Invoked :
        LET f == frame[c]
            Accepts(k) == f.checks[k].ok /\ HasOwnId(f.dir, f.checks[k].anime)
        IN ~f.hit =>
            /\ WalksInOrder(f)
            /\ \A k \in 1..(Len(f.checks) - 1) : ~Accepts(k)
            /\ (f.pc = "ret" /\ f.ret # Null) =>
                    /\ Len(f.checks) > 0
                    /\ Accepts(Len(f.checks))
                    /\ f.ret = f.checks[Len(f.checks)].anime
                    /\ StoredAndPersisted(f)
            /\ (f.pc = "ret" /\ f.ret = Null) =>
                    /\ Len(f.checks) = Len(f.fuzzyMatch)
                    /\ \A k \in 1..Len(f.checks) : ~Accepts(k)
                    /\ f.appendedAt = 0

\* C9 witness: a lower-scored candidate is returned after a higher-scored
\* one was rejected.
C9_Witness ==
    \E c \in Invoked :
        /\ frame[c].pc = "ret"
        /\ frame[c].ret # Null
        /\ Len(frame[c].checks) = 2
        /\ frame[c].checks[1].score > frame[c].checks[2].score
        /\ ~frame[c].checks[1].ok

\* C9 as stated: the candidate returned is the first that passes the
\* compatibility check, so no candidate that passed was walked over.
C9_FirstPassingCandidate ==
    \A c \in Invoked :
        LET f == frame[c]
        IN ~f.hit =>
            /\ \A k \in 1..(Len(f.checks) - 1) : ~f.checks[k].ok
            /\ (f.pc = "ret" /\ f.ret = Null) => \A k \in 1..Len(f.checks) : ~f.checks[k].ok

\* Every id of a list of relations maps to one counterpart: no two entries
\* share the bgm_id and differ on the mal_id, nor share the mal_id and
\* differ on the bgm_id.
OneToOne(relations) ==
    \A i \in 1..Len(relations), k \in 1..Len(relations) :
        /\ relations[i].bgm_id = relations[k].bgm_id => relations[i].mal_id = relations[k].mal_id
        /\ relations[i].mal_id = relations[k].mal_id => relations[i].bgm_id = relations[k].bgm_id

\* C32: starting from a cache in which every id maps to one counterpart, any
\* sequence of matchChinaToGlobal and matchGlobalToChina keeps it so.
C32_CacheStaysOneToOne ==
    OneToOne(loaded) => OneToOne(known_relations)

\* The ratings a matcher computes for its argument: one per title of each
\* item of the other catalog.
RatingsOf(f) ==
    IF f.dir = "cg"
    THEN {score[f.arg.titles[t]][global_anime_data[g].title] :
            t \in 1..Len(f.arg.titles), g \in 1..Len(global_anime_data)}
    ELSE UNION {{score[china_anime_data[k].titles[t]][f.arg.title] :
                    t \in 1..Len(china_anime_data[k].titles)} :
                k \in 1..Len(china_anime_data)}

\* What an invocation of a matcher does about strict mode: every check is
\* strict exactly when no rating reaches the threshold; then the only
\* candidate is the best-scoring pair, and when a rating reaches the
\* threshold every candidate reaches it.
MatcherStrictness(f) ==
    LET reached == \E r \in RatingsOf(f) : r >= Threshold
        best == CHOOSE r \in RatingsOf(f) \cup {0} : \A q \in RatingsOf(f) : q <= r
    IN (~f.hit /\ OwnId(f) # NoId) =>
        /\ f.strictMode = (~reached /\ best > 0)
        /\ \A k \in 1..Len(f.checks) : f.checks[k].strict = ~reached
        /\ ~reached =>
             /\ Len(f.fuzzyMatch) = (IF best > 0 THEN 1 ELSE 0)
             /\ \A k \in 1..Len(f.fuzzyMatch) : f.fuzzyMatch[k].score = best
        /\ reached =>
             /\ Len(f.fuzzyMatch) > 0
             /\ \A k \in 1..Len(f.fuzzyMatch) : f.fuzzyMatch[k].score >= Threshold

(***************************************************************************)
(* Claims about the fillers, checked under SpecFill.                       *)
(***************************************************************************)

\* The jobs of the filler.
Entries == 1..Len(collection)

\* The jobs whose promise is fulfilled: the job returned.
Fulfilled == {j \in Entries : jobState[j] \in {"resolved", "done"}}

\* C3: every job of fillBangumiCollection and fillAnilistCollection writes
\* its own result slot and no other, never twice, and has written it when
\* it returns; after wait() every slot is defined and holds the input entry
\* of its index, and the returned array has the input's length with
\* element i being input entry i, in whatever order the jobs complete.
C3_OwnSlotExactlyOnce ==
    /\ \A k \in 1..Len(writes) : writes[k].slot = writes[k].job
    /\ \A k1, k2 \in 1..Len(writes) : writes[k1].job = writes[k2].job => k1 = k2
    /\ \A j \in Fulfilled : \E k \in 1..Len(writes) : writes[k].job = j
    /\ \A i \in Entries : result[i] # Null => result[i].entry = collection[i]
    /\ callerPc \in {"returned", "finished"} => \A i \in Entries : result[i] # Null
    /\ callerPc # "threw"
    /\ callerPc = "finished" =>
            /\ Len(returned) = Len(collection)
            /\ \A i \in Entries :
                    /\ returned[i].update_time = collection[i].update_time
                    /\ returned[i].title = collection[i].title
                    /\ fillDir = "cg" => returned[i].bgm_id = collection[i].bgm_id
                    /\ fillDir = "gc" => returned[i].anilist_id = collection[i].anilist_id

\* C3 witness: the filler has returned after its jobs wrote their slots in
\* another order than the input's.
C3_Witness ==
    /\ callerPc = "finished"
    /\ Len(writes) = Len(collection)
    /\ \E k1, k2 \in 1..Len(writes) : k1 < k2 /\ writes[k1].job > writes[k2].job

\* C5: when a remote lookup inside a match job fails, by giving no data or
\* by throwing, the failure does not leave the job (its promise is not
\* rejected) and the job ends with a defined result in its slot.
C5_FailedLookupLeavesUnmatchedResult ==
    \A j \in Entries :
        /\ jobState[j] # "rejected"
        /\ j \in Fulfilled => result[j] # Null

C10_StrictPerMatcherAndPerSearchResult ==
    /\ \A c \in Invoked : MatcherStrictness(frame[c])
    /\ \A j \in DOMAIN job : \A k \in 1..Len(job[j].fchecks) :
            job[j].fchecks[k].strict = (job[j].fchecks[k].score < Threshold)

\* C10 witness: a job whose matcher checked a candidate that reaches the
\* threshold, non-strictly, and whose search fallback then checked a search
\* result in strict mode.
C10_Witness ==
    \E j \in Invoked :
        /\ Len(frame[j].checks) > 0
        /\ ~frame[j].checks[1].strict
        /\ \E k \in 1..Len(job[j].fchecks) : job[j].fchecks[k].strict

\* C10 as stated: the checks made for an entry, by the matcher and by the
\* search fallback, are strict exactly when no candidate reaches the
\* threshold, and then the only candidate considered is the best-scoring one.
C10_StrictExactlyWhenNoneReaches ==
    \A j \in Invoked :
        LET f == frame[j]
            all == f.checks \o job[j].fchecks
            reached == \E r \in RatingsOf(f) \cup {all[k].score : k \in 1..Len(all)} :
                            r >= Threshold
        IN (~f.hit /\ OwnId(f) # NoId) =>
            /\ \A k \in 1..Len(all) : all[k].strict = ~reached
            /\ ~reached => \A k \in 1..Len(all) :
                    /\ all[k].anime = all[1].anime
                    /\ \A r \in RatingsOf(f) : r <= all[k].score

\* The pair of ids a fill job resolved: the entry's bgm.tv id and the
\* MyAnimeList id of its match in fillBangumiCollection, the bgm.tv id of
\* the match and the MyAnimeList id of the entry's catalog item in
\* fillAnilistCollection.
ResolvedPair(j) ==
    IF fillDir = "cg"
    THEN [bgm_id |-> job[j].entry.bgm_id, mal_id |-> result[j].match.mal]
    ELSE [bgm_id |-> getBgmId(result[j].match), mal_id |-> job[j].item.mal]

\* The jobs that went through their matcher and ended with a match, found
\* by the matcher or by the title search that follows its miss.
ResolvedByMatching ==
    {j \in Invoked : /\ job[j].pc = "end"
                     /\ result[j] # Null
                     /\ result[j].match # Null}

\* C35: every identity resolved during a run is recorded in the relation
\* cache, whether the catalog match or the title-search fallback resolved
\* it, so that a later run finds it by cache lookup alone.
C35_EveryResolvedIdentityCached ==
    \A j \in ResolvedByMatching :
        \E n \in 1..Len(known_relations) :
            /\ known_relations[n].bgm_id = ResolvedPair(j).bgm_id
            /\ known_relations[n].mal_id = ResolvedPair(j).mal_id

(***************************************************************************)
(* Claims about compareChinaWithGlobal, checked under SpecCompare.         *)
(***************************************************************************)

\* The quarter of the year a month lies in: 1-3 winter, 4-6 spring, 7-9
\* summer, 10-12 fall.
CanonicalQuarter(m) ==
    CASE m \in 1..3 -> "WINTER"
      [] m \in 4..6 -> "SPRING"
      [] m \in 7..9 -> "SUMMER"
      [] OTHER -> "FALL"

\* The quarter that follows a boundary month, "NONE" for the other months.
AdjacentQuarter(m) ==
    CASE m = 3 -> "SPRING"
      [] m = 6 -> "SUMMER"
      [] m = 9 -> "FALL"
      [] m = 12 -> "WINTER"
      [] OTHER -> "NONE"

\* The format compatibility matrix: tv-tv, web-ona, ova-ova, ova-special,
\* movie-movie.
FormatCompatible(chinaType, globalType) ==
    <<chinaType, globalType>> \in
        {<<"tv", "TV">>, <<"web", "ONA">>, <<"ova", "OVA">>, <<"ova", "SPECIAL">>,
         <<"movie", "MOVIE">>}

\* compareChinaWithGlobal has returned.
Compared == compare.pc = "returned"

SameYear == compare.china.year = compare.global.year

InCanonicalQuarter == compare.global.season = CanonicalQuarter(compare.china.month)

InAdjacentQuarter == compare.global.season = AdjacentQuarter(compare.china.month)

FormatsAgree == FormatCompatible(compare.china.type, compare.global.type)

\* The source record was fetched and its episode total is the target's.
EpisodesEqual ==
    /\ compare.fetched
    /\ compare.subject # Null
    /\ compare.subject.total_episodes = compare.global.episodes

\* C11: in strict mode with a defined target season, a pair is accepted only
\* when the season is the canonical quarter of the start month, and a pair
\* with matching year, canonical quarter and format is accepted, in each of
\* the 12 months.
C11_StrictCanonicalQuarter ==
    (Compared /\ compare.strictMode /\ compare.global.season # "UNDEFINED") =>
        /\ compare.ret => InCanonicalQuarter
        /\ (SameYear /\ InCanonicalQuarter /\ FormatsAgree) => compare.ret

\* C12: in strict mode a pair whose target format is known and outside the
\* compatibility matrix is reported incompatible, whatever the episode
\* counts are.
C12_StrictFormatMismatchRejected ==
    (/\ Compared
     /\ compare.strictMode
     /\ compare.global.type # "UNKNOWN"
     /\ ~FormatsAgree) => ~compare.ret

\* C13: in non-strict mode with a defined target season, a pair is accepted
\* only when the season is the canonical quarter of the start month or the
\* month is a boundary month and the season the adjacent quarter; a pair
\* with such a season, matching year and matching format is accepted.
C13_NonStrictSeasonTable ==
    (Compared /\ ~compare.strictMode /\ compare.global.season # "UNDEFINED") =>
        /\ compare.ret => (InCanonicalQuarter \/ InAdjacentQuarter)
        /\ (SameYear /\ (InCanonicalQuarter \/ InAdjacentQuarter) /\ FormatsAgree)
                => compare.ret

\* A boundary month is accepted with the adjacent quarter.
C13_Witness ==
    /\ Compared
    /\ ~compare.strictMode
    /\ compare.china.month = 12
    /\ compare.global.season = "WINTER"
    /\ compare.ret

\* C14: in non-strict mode with a known target format, for a pair that
\* passes the year and season checks, the pair is compatible exactly when
\* the formats are in the matrix or the fetched source record's episode
\* total equals the target's episode count.
C14_FormatMatrixAndEpisodeFallback ==
    (/\ Compared
     /\ ~compare.strictMode
     /\ compare.global.type # "UNKNOWN"
     /\ SameYear
     /\ \/ compare.global.season = "UNDEFINED"
        \/ InCanonicalQuarter
        \/ InAdjacentQuarter) =>
        /\ compare.ret = (FormatsAgree \/ EpisodesEqual)
        /\ ~FormatsAgree => compare.fetched

\* A format mismatch rescued by equal episode counts.
C14_Witness ==
    /\ Compared
    /\ ~compare.strictMode
    /\ compare.global.type # "UNKNOWN"
    /\ ~FormatsAgree
    /\ EpisodesEqual
    /\ compare.ret

\* C15: in both modes, a pair with equal years, Undefined target season and
\* Unknown target type is compatible for every start month and source type;
\* an Undefined season alone leaves the outcome to the format check, and an
\* Unknown type never has the source record fetched.
C15_UndefinedSeasonUnknownTypeSkipped ==
    Compared =>
        /\ (SameYear /\ compare.global.season = "UNDEFINED"
                /\ compare.global.type = "UNKNOWN") => compare.ret
        /\ (SameYear /\ compare.global.season = "UNDEFINED" /\ FormatsAgree)
                => compare.ret
        /\ compare.global.type = "UNKNOWN" => ~compare.fetched

\* A strict comparison of a February start with an Undefined season and an
\* Unknown type.
C15_Witness ==
    /\ Compared
    /\ compare.strictMode
    /\ compare.china.month = 2
    /\ compare.china.type = "movie"
    /\ compare.global.season = "UNDEFINED"
    /\ compare.global.type = "UNKNOWN"
    /\ compare.ret

\* C33: strict mode is never more permissive than non-strict mode: a pair
\* that compareChinaWithGlobal accepts in strict mode is accepted in
\* non-strict mode too, whatever getSubjectById answers for the episode
\* count.
C33_StrictNeverMorePermissive ==
    (Compared /\ compare.strictMode /\ compare.ret) =>
        \A subject \in compareSubjectAnswers(compare.china) :
            compareChinaWithGlobal(compare.china, compare.global, FALSE, subject)

(***************************************************************************)
(* Claims about generateChangelog, checked under SpecChangelog.            *)
(***************************************************************************)

\* The positions of the source entries the loop has been through.
Processed == 1..(genIdx - 1)

\* The positions in the result of the instructions whose after is source
\* entry i.
InstructionsOf(i) == {n \in 1..Len(changelog) : changelog[n].after = i}

\* A source entry that carries no id of its counterpart in the other
\* catalog: no bgm.tv id on an Anilist entry, neither a MyAnimeList nor an
\* AniList id on a Bangumi entry.
Unresolved(entry) ==
    IF backwardMode THEN entry.bgm_id = NoId
    ELSE entry.mal_id = NoId /\ entry.anilist_id = NoId

\* The episode total the catalog records for the title of an entry, found by
\* the entry's MyAnimeList id when it has one and by its AniList id
\* otherwise; 0 when the catalog has no such item.
EpisodeTotal(entry) ==
    LET hits == {k \in 1..Len(global_anime_data) :
                    IF entry.mal_id # NoId
                    THEN global_anime_data[k].mal = entry.mal_id
                    ELSE global_anime_data[k].anilist = entry.anilist_id}
    IN IF hits = {} THEN 0
       ELSE global_anime_data[CHOOSE k \in hits : \A h \in hits : k <= h].episodes

\* The watched-episode count of an entry after clamping.
Clamped(entry) ==
    IF entry.status = "Completed" \/ entry.watched_episodes > EpisodeTotal(entry)
    THEN EpisodeTotal(entry)
    ELSE entry.watched_episodes

\* The positions of the target entries that carry the id the source entry is
\* looked up by: its anilist_id when it has one, its mal_id otherwise.
Counterparts(entry) ==
    {k \in 1..Len(given.target) :
        IF entry.anilist_id # NoId
        THEN given.target[k].anilist_id = entry.anilist_id
        ELSE given.target[k].mal_id = entry.mal_id}

FirstCounterpart(entry) ==
    CHOOSE k \in Counterparts(entry) : \A h \in Counterparts(entry) : k <= h

\* C16: a source entry that carries no id of its counterpart in the other
\* catalog produces no instruction, in forward and in backward generation.
C16_UnresolvedEntryNoInstruction ==
    \A i \in Processed : Unresolved(given.source[i]) => InstructionsOf(i) = {}

\* C17: a processed source entry that is Completed, or whose watched count
\* exceeds the catalog's episode total for the title, has its watched count
\* set to that total; the watched count of every other entry is unchanged.
C17_WatchedClampedToTotal ==
    /\ \A i \in Processed :
        LET entry == given.source[i]
        IN bangumiCollection[i].watched_episodes =
                IF lacksIds(entry) THEN entry.watched_episodes
                ELSE IF \/ entry.status = "Completed"
                        \/ entry.watched_episodes > EpisodeTotal(entry)
                     THEN EpisodeTotal(entry)
                     ELSE entry.watched_episodes
    /\ genPc # "idle" =>
        /\ \A i \in 1..Len(bangumiCollection) :
                i \notin Processed => bangumiCollection[i] = given.source[i]
        /\ \A k \in 1..Len(anilistCollection) :
                anilistCollection[k].watched_episodes = given.target[k].watched_episodes

\* A Completed entry with 30 watched episodes of a title of 12.
C17_Witness ==
    /\ genPc = "returned"
    /\ \E i \in Processed :
        /\ given.source[i].status = "Completed"
        /\ given.source[i].watched_episodes = 30
        /\ EpisodeTotal(given.source[i]) = 12
        /\ bangumiCollection[i].watched_episodes = 12

\* C18: the counterpart of a source entry is the first target entry with the
\* source entry's anilist_id when it has one, with its mal_id otherwise;
\* when there is none, the result holds exactly one instruction for the
\* source entry, with no before and with the source entry as after.
C18_CounterpartLookupAndPureCreate ==
    \A i \in Processed :
        LET entry == given.source[i]
        IN ~lacksIds(entry) =>
            IF Counterparts(entry) = {}
            THEN /\ Cardinality(InstructionsOf(i)) = 1
                 /\ \A n \in InstructionsOf(i) : changelog[n].before = 0
                 /\ bangumiCollection[i] = [entry EXCEPT !.watched_episodes = Clamped(entry)]
            ELSE \A n \in InstructionsOf(i) : changelog[n].before = FirstCounterpart(entry)

\* A source entry with an anilist_id that no entry of a non-empty target
\* collection carries.
C18_Witness ==
    /\ genPc = "returned"
    /\ anilistCollection # <<>>
    /\ \E i \in Processed :
        /\ given.source[i].anilist_id # NoId
        /\ Counterparts(given.source[i]) = {}
        /\ \E n \in InstructionsOf(i) : changelog[n].before = 0

\* C19: with syncComment off, a source entry that has a counterpart gets an
\* instruction exactly when its score, its status or its clamped watched
\* count differs from the counterpart's, and never more than one.
C19_InstructionIffScoreStatusProgressDiffer ==
    ~syncComment =>
        \A i \in Processed :
            LET entry == given.source[i]
            IN (~lacksIds(entry) /\ Counterparts(entry) # {}) =>
                LET target == given.target[FirstCounterpart(entry)]
                IN /\ (InstructionsOf(i) # {}) =
                        (\/ entry.score # target.score
                         \/ entry.status # target.status
                         \/ Clamped(entry) # target.watched_episodes)
                   /\ Cardinality(InstructionsOf(i)) <= 1

\* A source entry whose ids, title, comments and update time differ from its
\* counterpart's and that gets no instruction.
C19_Witness ==
    /\ genPc = "returned"
    /\ ~syncComment
    /\ \E i \in Processed :
        LET entry == given.source[i]
        IN /\ ~lacksIds(entry)
           /\ Counterparts(entry) # {}
           /\ entry.mal_id # given.target[FirstCounterpart(entry)].mal_id
           /\ entry.title # given.target[FirstCounterpart(entry)].title
           /\ entry.comments # given.target[FirstCounterpart(entry)].comments
           /\ entry.update_time # given.target[FirstCounterpart(entry)].update_time
           /\ InstructionsOf(i) = {}

\* The ids of the source collection are resolved and every source entry
\* agrees with its counterpart on status, score, watched count and comments.
AlreadyInSync ==
    \A i \in 1..Len(given.source) :
        LET entry == given.source[i]
        IN /\ ~lacksIds(entry)
           /\ Counterparts(entry) # {}
           /\ entry.status = given.target[FirstCounterpart(entry)].status
           /\ entry.score = given.target[FirstCounterpart(entry)].score
           /\ entry.watched_episodes = given.target[FirstCounterpart(entry)].watched_episodes
           /\ entry.comments = given.target[FirstCounterpart(entry)].comments

\* C20: generateChangelog on two collections whose ids are resolved and whose
\* corresponding entries have identical status, score, watched count and
\* comments returns no instruction, whatever totals the catalog records.
C20_NoOpLaw ==
    (genPc = "returned" /\ AlreadyInSync) => changelog = <<>>

\* The fields generateChangelog back-fills.
BackfilledFields == {"bgm_id", "mal_id", "anilist_id", "title"}

\* C21: when a counterpart is found, an id or title an entry already has is
\* neither overwritten nor erased, on the source entry and on the target
\* entry, and a pair of entries that agree on score, status, watched count
\* and comments gets no instruction from the back-filling.
C21_BackfillOnlyMissing ==
    genPc # "idle" =>
        /\ \A i \in 1..Len(bangumiCollection) : \A f \in BackfilledFields :
                given.source[i][f] # NoId => bangumiCollection[i][f] = given.source[i][f]
        /\ \A k \in 1..Len(anilistCollection) : \A f \in BackfilledFields :
                given.target[k][f] # NoId => anilistCollection[k][f] = given.target[k][f]
        /\ \A i \in Processed :
            LET entry == given.source[i]
            IN (~lacksIds(entry) /\ Counterparts(entry) # {}) =>
                LET target == given.target[FirstCounterpart(entry)]
                IN (/\ entry.score = target.score
                    /\ entry.status = target.status
                    /\ Clamped(entry) = target.watched_episodes
                    /\ entry.comments = target.comments) => InstructionsOf(i) = {}

\* C31: generateChangelog emits at most one instruction per source entry;
\* with syncComment on, an entry whose comments differ and whose score,
\* status or watched count also differs yields one instruction, not two.
C31_AtMostOneInstructionPerEntry ==
    \A i \in Processed : Cardinality(InstructionsOf(i)) <= 1

\* C34: when the catalog's episode total for the title of a source entry is
\* unknown (0) or the catalog has no item for the title, generateChangelog
\* leaves the entry's watched count as it was.
C34_UnknownTotalLeavesWatched ==
    \A i \in Processed :
        EpisodeTotal(given.source[i]) = 0 =>
            bangumiCollection[i].watched_episodes = given.source[i].watched_episodes

(***************************************************************************)
(* Claims about the main loop of serverMode, checked under SpecConverge    *)
(***************************************************************************)

\* C36: applying a changelog converges: once the after entry of every
\* instruction of an iteration is written to the target collection, the
\* changelog of the next iteration, generated from the same source
\* collection and catalogs, is empty.
C36_SecondChangelogEmpty ==
    (/\ main.pc = "server"
     /\ main.iteration > 1
     /\ main.successCount = Len(main.changeLog)
     /\ genPc = "returned") => changelog = <<>>

(***************************************************************************)
(* Claims about singleMode and smartUpdateCollection, checked under        *)
(* SpecMain                                                                *)
(***************************************************************************)

\* The instructions of a changelog for title k.
ForTitle(log, k) == {log[n] : n \in {h \in 1..Len(log) : log[h].title = k}}

\* The positions of a changelog that hold an instruction for title k.
PositionsFor(log, k) == {n \in 1..Len(log) : log[n].title = k}

\* singleMode has its changelog.
Generated == main.pc \notin {"idle", "changelog"}

Updating == main.pc # "idle" /\ main.anilistCalled

\* C26: the count smartUpdateCollection keeps and returns is the number of
\* entries whose write succeeded: an entry for which no Anilist id was found
\* or whose query saved nothing is not counted, so the count never exceeds
\* the number of entries written.
C26_CountIsEntriesWritten ==
    Updating => main.successCount <= Cardinality(main.saved)

\* singleMode has handed the changelog to the clients.
Routed ==
    \/ main.pc \in {"anilist", "bangumi", "threw"}
    \/ main.pc = "done" /\ (main.anilistCalled \/ main.bangumiCalled)

\* The platform an instruction is for: its tag with --both, Bangumi with
\* --backward, Anilist without flags.
PlatformOf(c) ==
    IF main.bothMode THEN c.to ELSE IF main.backwardMode THEN "bangumi" ELSE "anilist"

\* The positions of a client's list that hold the entry; smartUpdateCollection
\* may have filled in its anilist_id since.
HandedAt(list, entry) ==
    {n \in 1..Len(list) : [list[n] EXCEPT !.anilist_id = entry.anilist_id] = entry}

WriteSent ==
    \/ main.pc \in {"anilist", "bangumi", "threw"}
    \/ main.anilistCalled
    \/ main.bangumiCalled
    \/ main.sent # {}

\* C28: with manual_confirm on, no client is called and no query sent unless
\* the user answered the prompt with y (in either case) or an empty line; and
\* with an empty changelog nothing is sent whatever the configuration.
C28_NoWriteWithoutConfirmation ==
    (main.pc # "idle" /\ WriteSent) =>
        /\ main.userConfirm => main.answer \in {"y", "Y", ""}
        /\ Len(main.changeLog) > 0

\* The user answered with an empty line and an entry was written.
C28_Witness ==
    /\ main.pc = "done"
    /\ main.userConfirm
    /\ main.answer = ""
    /\ main.saved # {}

(***************************************************************************)
(* Claims about the liveness of the Scheduler, checked under SpecLive      *)
(***************************************************************************)

\* C24: when every started job settles, every pushed job is eventually
\* started and a pending wait() eventually returns; and wait() has not
\* returned while a pushed job is still queued or running.
C24_EveryJobStartedAndWaitReturns ==
    /\ \A j \in Jobs : (jobState[j] = "queued") ~> (jobState[j] \notin {"new", "queued"})
    /\ (callerPc = "waiting") ~> (callerPc = "returned")
    /\ [](callerPc = "returned" => \A j \in Jobs : jobState[j] \notin {"queued", "running"})

(***************************************************************************)
(* Claims about a failing save of the relation cache, checked under        *)
(* SpecPersist                                                             *)
(***************************************************************************)

\* C25: a failing write of known_relations.json is not fatal: after the
\* retry the matcher still returns the match it found, so no invocation
\* ends with the exception of the write.
C25_FailedSaveStillReturnsMatch ==
    \A c \in 1..MaxCalls : frame[c].pc # "threw"

(***************************************************************************)
(* Claims about manual_relations and ignore_entries                        *)
(***************************************************************************)

\* C30: a pair [b, a] of manual_relations forces the match: the Bangumi entry
\* b that fillBangumiCollection returns carries anilist_id a, and the
\* Anilist entry a that fillAnilistCollection returns carries bgm_id b.
C30_ManualRelationForcesMatch ==
    returned # Null =>
        \A i \in 1..Len(collection) :
            LET manual_id == IF fillDir = "cg" THEN manualOf("bgm_id", collection[i].bgm_id)
                             ELSE manualOf("anilist_id", collection[i].anilist_id)
            IN manual_id # Null =>
                IF fillDir = "cg" THEN returned[i].anilist_id = manual_id.anilist_id
                ELSE returned[i].bgm_id = manual_id.bgm_id

\* The ids an entry is known by that ignore_entries lists.
IgnoredIds(entry) ==
    ({entry.bgm_id} \cap ignore_entries.bangumi)
        \cup ({entry.anilist_id} \cap ignore_entries.anilist)
        \cup ({entry.mal_id} \cap ignore_entries.mal)

\* C29: no instruction has an entry listed in ignore_entries as its source,
\* and none writes to an entry of the other platform that is listed there:
\* the entry an instruction carries has no ignored id, on bgm.tv, on AniList
\* or by its MyAnimeList id.
C29_IgnoredEntryUntouched ==
    genPc \in {"loop", "returned"} =>
        \A n \in 1..Len(changelog) : IgnoredIds(bangumiCollection[changelog[n].after]) = {}

(***************************************************************************)
(* Claims about the order of the jobs, checked under SpecOrder             *)
(***************************************************************************)

\* The jobs that fetched their subject from bgm.tv and stored a relation for
\* the MyAnimeList id.
StoredFor(mal_id) ==
    {j \in Invoked : /\ frame[j].appendedAt > 0
                     /\ job[j].subject # Null
                     /\ PairOf(frame[j]).mal_id = mal_id}

\* C23: what a run leaves does not depend on the order in which the jobs
\* complete: the relation the cache gives for a MyAnimeList id, from which
\* fillAnilistCollection takes the bgm_id that the instructions of --backward
\* and --both carry, is the one of the job pushed first among those that
\* stored one for the id.
C23_OutcomeIndependentOfJobOrder ==
    returned # Null =>
        \A mal_id \in {"m1", "m2"} :
            StoredFor(mal_id) # {} =>
                LET first == CHOOSE j \in StoredFor(mal_id) : \A h \in StoredFor(mal_id) : j <= h
                IN knownRelationOf(known_relations, "mal_id", mal_id).bgm_id
                        = PairOf(frame[first]).bgm_id

(***************************************************************************)
(* Claims about the remote calls, checked under SpecRetry                  *)
(***************************************************************************)

\* What holds of a remote call at every moment: it has sent at most
\* retries + 1 requests, the delay it waited after its n-th failed request
\* is the first delay doubled n - 1 times, and it returns the value of an
\* exhausted call (null, [] in searchAnime) only after retries + 1 requests.
RetryBounded ==
    /\ remote.attempts <= remote.first.retries + 1
    /\ Len(remote.slept) <= remote.first.retries
    /\ \A n \in 1..Len(remote.slept) : remote.slept[n] = remote.first.delay * 2 ^ (n - 1)
    /\ remote.pc = "returned" =>
        /\ remote.ret \in {"data", exhausted(remote.fn)}
        /\ remote.ret = exhausted(remote.fn) =>
            /\ remote.attempts = remote.first.retries + 1
            /\ Len(remote.slept) = remote.first.retries

C39_RecordedEtagMeansStoredSnapshot ==
    \A etag_type \in EtagTypes :
        database[etag_type].etag = database[etag_type].remote =>
            database[etag_type].file = database[etag_type].etag

====
